---- MODULE Spec2Model ----
(***************************************************************************)
(* Host-side instance lifecycle (PluginInstanceInner) and the audio        *)
(* processor state machine (PluginAudioProcessor and its Started/Stopped   *)
(* halves) of clack, as a state machine.                                   *)
(*                                                                         *)
(* A "world" record w carries everything a handler can change on the       *)
(* instance side, so that a handler and every call it makes compose as     *)
(* ordinary operators:                                                     *)
(*   strong[i]          strong count of Arc<PluginInstanceInner> number i  *)
(*   plugin_ptr[i]      TRUE when PluginInstanceInner::plugin_ptr is       *)
(*                      non-null                                           *)
(*   audio_processor[i] TRUE when the HostWrapper holds a processing facet *)
(*   destroyed[i]       number of foreign destroy calls made on i          *)
(*   calls              what the handler did, in order: the foreign calls  *)
(*                      it made, with their arguments and what each        *)
(*                      returned, and the facet closures it ran            *)
(***************************************************************************)
EXTENDS Integers, Sequences, FiniteSets, TLC

\* Number of Arc<PluginInstanceInner> allocations a behaviour may make.
MaxInstances == 2

\* Width in bits of the steady-time integers: u64 and i64 are scaled down to
\* this width, keeping the unsigned range twice the signed one.
Bits == 3

Ids == 1..MaxInstances

\* Option::None for an Option<Arc<PluginInstanceInner>>, and "no handle held".
None == 0

\* The optional entries of the clap_plugin function table the host consumes.
Entries ==
    {"activate", "deactivate", "start_processing", "stop_processing",
     "process", "on_main_thread", "destroy"}

\* Raw status codes a foreign process function may return: the codes of the
\* ABI (error, continue, continue-if-not-quiet, sleep) and two codes outside
\* the known set.
CLAP_PROCESS_ERROR == 0

StatusCodes == {-1, 0, 1, 2, 3, 5}

\* Valid configurations <<sample rate, min frames, max frames>>: the sample
\* rate is positive and min <= max.
Configs == {<<44100, 1, 1>>, <<48000, 32, 512>>}

\* Frame counts a buffer may report.
FrameCounts == {0, 64, 100, 128}

\* Process requests: what the input and the output buffers report as their
\* frame count, and the steady time asked for, each of them optional.
Requests ==
    [in_frames    : {<<>>} \cup {<<n>> : n \in FrameCounts},
     out_frames   : {<<>>} \cup {<<n>> : n \in FrameCounts},
     steady_time  : {<<>>} \cup {<<v>> : v \in 0..(2^Bits - 1)}]

\* The request used where the lifecycle, not the payload, is explored.
LifecycleRequests ==
    {[in_frames |-> <<64>>, out_frames |-> <<128>>, steady_time |-> <<0>>]}

\* The foreign functions of an instance, and the host-side closures that
\* build and tear down the processing facet.
ForeignFns == Entries \cup {"reset"}

FacetEvents == {"facet_init", "facet_teardown"}

VARIABLES
    table,            \* [Entries -> BOOLEAN]: TRUE when the entry is Some
    nextId,           \* next Arc allocation number
    strong,
    plugin_ptr,
    audio_processor,
    destroyed,
    processing,       \* per instance: TRUE when the plugin's last
                      \* start_processing returned true and no
                      \* stop_processing has reached it since
    calls,
    instance,         \* the PluginInstance the control context holds, or None
    processor,        \* the processor value the processing context holds
    request,          \* <<req>> when the last operation was a process
                      \* request req, <<>> otherwise
    op,               \* the last operation requested
    res,              \* what it returned
    cfg_test,         \* TRUE in a test build of the plugin crate
    pw_audio_processor, \* the facet cell of the plugin wrapper
    pw_facets,        \* the number of processing facets alive
    pw_last,          \* the last lifecycle call that returned Ok
    pw_torn,          \* TRUE when a teardown panicked since the last
                      \* successful activate
    pw_ran,           \* the calls made during the last plugin-side operation
    pw_log,           \* the messages it logged
    pw_op,            \* the last plugin-side operation requested
    pw_res            \* what it returned

hostVars ==
    <<table, nextId, strong, plugin_ptr, audio_processor, destroyed,
      processing, calls, instance, processor, request, op, res>>

pluginVars ==
    <<cfg_test, pw_audio_processor, pw_facets, pw_last, pw_torn, pw_ran,
      pw_log, pw_op, pw_res>>

vars == <<hostVars, pluginVars>>

World ==
    [strong |-> strong, plugin_ptr |-> plugin_ptr,
     audio_processor |-> audio_processor, destroyed |-> destroyed,
     processing |-> processing, calls |-> <<>>]

SetWorld(w) ==
    /\ strong' = w.strong
    /\ plugin_ptr' = w.plugin_ptr
    /\ audio_processor' = w.audio_processor
    /\ destroyed' = w.destroyed
    /\ processing' = w.processing
    /\ calls' = w.calls

\* One invocation of the foreign function f of instance i with arguments
\* arg, returning ret; active is what is_active of the instance answers
\* while the function runs, started whether the plugin is between a
\* successful start_processing and a stop_processing, and refs the number
\* of references to the instance alive at the call.
Foreign(w, f, i, arg, ret) ==
    [w EXCEPT !.calls = Append(@, [fn |-> f, inst |-> i, arg |-> arg,
                                   ret |-> ret,
                                   active |-> w.audio_processor[i],
                                   started |-> w.processing[i],
                                   refs |-> w.strong[i]]),
              !.destroyed[i] = IF f = "destroy" THEN @ + 1 ELSE @,
              !.processing[i] =
                  IF f = "start_processing" /\ ret = "true" THEN TRUE
                  ELSE IF f = "stop_processing" THEN FALSE
                  ELSE @]

\* One run of a facet closure of instance i.
Closure(w, e, i) ==
    [w EXCEPT !.calls = Append(@, [fn |-> e, inst |-> i, arg |-> <<>>,
                                   ret |-> "void",
                                   active |-> w.audio_processor[i],
                                   started |-> w.processing[i],
                                   refs |-> w.strong[i]])]

Bool(b) == IF b THEN "true" ELSE "false"

----------------------------------------------------------------------------
(* HostWrapper: the per-instance host state holding the processing facet.  *)

HostWrapper_is_active(w, i) == w.audio_processor[i]

HostWrapper_setup_audio_processor(w, i) ==
    IF w.audio_processor[i]
    THEN [w |-> w, r |-> "AlreadyActivatedPlugin"]
    ELSE [w |-> [Closure(w, "facet_init", i)
                   EXCEPT !.audio_processor[i] = TRUE],
          r |-> "Ok"]

HostWrapper_deactivate(w, i) ==
    IF w.audio_processor[i]
    THEN [w |-> [Closure(w, "facet_teardown", i)
                   EXCEPT !.audio_processor[i] = FALSE],
          r |-> "Ok"]
    ELSE [w |-> w, r |-> "DeactivatedPlugin"]

----------------------------------------------------------------------------
(* PluginInstanceInner                                                     *)

\* Faulty variant: a failed activation is undone through the foreign
\* deactivate as well.
Inner_activate_DeactivatesOnFailure(w, i, cfg, ok) ==
    IF ~table["activate"]
    THEN [w |-> w, r |-> "NullActivateFunction"]
    ELSE LET s == HostWrapper_setup_audio_processor(w, i) IN
         IF s.r # "Ok"
         THEN [w |-> s.w, r |-> s.r]
         ELSE LET w1 == Foreign(s.w, "activate", i, cfg, Bool(ok)) IN
              IF ~ok
              THEN [w |-> HostWrapper_deactivate(
                              IF table["deactivate"]
                              THEN Foreign(w1, "deactivate", i, <<>>, "void")
                              ELSE w1, i).w,
                    r |-> "ActivationFailed"]
              ELSE [w |-> w1, r |-> "Ok"]

\* Faulty variant: the facet is built after the foreign activate returned.
Inner_activate_CallsFirst(w, i, cfg, ok) ==
    IF ~table["activate"]
    THEN [w |-> w, r |-> "NullActivateFunction"]
    ELSE IF HostWrapper_is_active(w, i)
         THEN [w |-> w, r |-> "AlreadyActivatedPlugin"]
         ELSE LET w1 == Foreign(w, "activate", i, cfg, Bool(ok)) IN
              IF ~ok
              THEN [w |-> w1, r |-> "ActivationFailed"]
              ELSE [w |-> HostWrapper_setup_audio_processor(w1, i).w,
                    r |-> "Ok"]

\* Faulty variant: the facet is kept when the foreign activate fails.
Inner_activate_NoTeardown(w, i, cfg, ok) ==
    IF ~table["activate"]
    THEN [w |-> w, r |-> "NullActivateFunction"]
    ELSE LET s == HostWrapper_setup_audio_processor(w, i) IN
         IF s.r # "Ok"
         THEN [w |-> s.w, r |-> s.r]
         ELSE LET w1 == Foreign(s.w, "activate", i, cfg, Bool(ok)) IN
              IF ~ok
              THEN [w |-> w1, r |-> "ActivationFailed"]
              ELSE [w |-> w1, r |-> "Ok"]

\* activate: ok is what the foreign activate function returns.
Inner_activate(w, i, cfg, ok) ==
    IF ~table["activate"]
    THEN [w |-> w, r |-> "NullActivateFunction"]
    ELSE LET s == HostWrapper_setup_audio_processor(w, i) IN
         IF s.r # "Ok"
         THEN [w |-> s.w, r |-> s.r]
         ELSE LET w1 == Foreign(s.w, "activate", i, cfg, Bool(ok)) IN
              IF ~ok
              THEN [w |-> HostWrapper_deactivate(w1, i).w,
                    r |-> "ActivationFailed"]
              ELSE [w |-> w1, r |-> "Ok"]

\* Faulty variant: the foreign deactivate is made but the facet is kept.
Inner_deactivate_with_KeepsFacet(w, i) ==
    IF ~HostWrapper_is_active(w, i)
    THEN [w |-> w, r |-> "DeactivatedPlugin"]
    ELSE [w |-> IF table["deactivate"]
                THEN Foreign(w, "deactivate", i, <<>>, "void")
                ELSE w,
          r |-> "Ok"]

\* Faulty variant: the facet is torn down before the foreign deactivate.
Inner_deactivate_with_TeardownFirst(w, i) ==
    IF ~HostWrapper_is_active(w, i)
    THEN [w |-> w, r |-> "DeactivatedPlugin"]
    ELSE LET h == HostWrapper_deactivate(w, i) IN
         [w |-> IF table["deactivate"]
                THEN Foreign(h.w, "deactivate", i, <<>>, "void")
                ELSE h.w,
          r |-> h.r]

\* Faulty variant: the is_active check is missing.
Inner_deactivate_with_Unchecked(w, i) ==
    LET w1 == IF table["deactivate"]
              THEN Foreign(w, "deactivate", i, <<>>, "void")
              ELSE w
    IN  HostWrapper_deactivate(w1, i)

Inner_deactivate_with(w, i) ==
    IF ~HostWrapper_is_active(w, i)
    THEN [w |-> w, r |-> "DeactivatedPlugin"]
    ELSE LET w1 == IF table["deactivate"]
                   THEN Foreign(w, "deactivate", i, <<>>, "void")
                   ELSE w
         IN  HostWrapper_deactivate(w1, i)

\* Faulty variant: an absent start_processing entry is a failure.
Inner_start_processing_AbsentFails(w, i, ok) ==
    IF table["start_processing"]
    THEN LET w1 == Foreign(w, "start_processing", i, <<>>, Bool(ok)) IN
         IF ok THEN [w |-> w1, r |-> "Ok"]
               ELSE [w |-> w1, r |-> "StartProcessingFailed"]
    ELSE [w |-> w, r |-> "StartProcessingFailed"]

\* Faulty variant: what the foreign start_processing returns is ignored.
Inner_start_processing_IgnoresResult(w, i, ok) ==
    IF table["start_processing"]
    THEN [w |-> Foreign(w, "start_processing", i, <<>>, Bool(ok)),
          r |-> "Ok"]
    ELSE [w |-> w, r |-> "Ok"]

\* start_processing: ok is what the foreign start_processing returns.
Inner_start_processing(w, i, ok) ==
    IF table["start_processing"]
    THEN LET w1 == Foreign(w, "start_processing", i, <<>>, Bool(ok)) IN
         IF ok THEN [w |-> w1, r |-> "Ok"]
               ELSE [w |-> w1, r |-> "StartProcessingFailed"]
    ELSE [w |-> w, r |-> "Ok"]

\* Faulty variant: the foreign stop function is invoked twice.
Inner_stop_processing_Twice(w, i) ==
    IF table["stop_processing"]
    THEN Foreign(Foreign(w, "stop_processing", i, <<>>, "void"),
                 "stop_processing", i, <<>>, "void")
    ELSE w

Inner_stop_processing(w, i) ==
    IF table["stop_processing"]
    THEN Foreign(w, "stop_processing", i, <<>>, "void")
    ELSE w

Inner_on_main_thread(w, i) ==
    IF table["on_main_thread"]
    THEN Foreign(w, "on_main_thread", i, <<>>, "void")
    ELSE w

Inner_reset(w, i) == Foreign(w, "reset", i, <<>>, "void")

\* Faulty variant: the null check of plugin_ptr is missing.
Inner_drop_NoNullCheck(w, i) ==
    LET w1 == IF HostWrapper_is_active(w, i)
              THEN Inner_deactivate_with(w, i).w
              ELSE w
    IN  IF table["destroy"]
        THEN Foreign(w1, "destroy", i, <<>>, "void")
        ELSE w1

\* Faulty variant: an active instance is destroyed without deactivation.
Inner_drop_NoDeactivate(w, i) ==
    IF ~w.plugin_ptr[i]
    THEN w
    ELSE IF table["destroy"]
         THEN Foreign(w, "destroy", i, <<>>, "void")
         ELSE w

\* Drop for PluginInstanceInner.
Inner_drop(w, i) ==
    IF ~w.plugin_ptr[i]
    THEN w
    ELSE LET w1 == IF HostWrapper_is_active(w, i)
                   THEN Inner_deactivate_with(w, i).w
                   ELSE w
         IN  IF table["destroy"]
             THEN Foreign(w1, "destroy", i, <<>>, "void")
             ELSE w1

\* Faulty variant: the value is dropped with every reference released.
Arc_drop_EveryRelease(w, i) ==
    Inner_drop([w EXCEPT !.strong[i] = @ - 1], i)

\* Releasing one Arc<PluginInstanceInner>: the value is dropped with the last
\* strong reference.
Arc_drop(w, i) ==
    LET w1 == [w EXCEPT !.strong[i] = @ - 1] IN
    IF w1.strong[i] = 0 THEN Inner_drop(w1, i) ELSE w1

\* Faulty variant: the clone is handed out without being counted.
Arc_clone_Uncounted(w, i) == w

Arc_clone(w, i) == [w EXCEPT !.strong[i] = @ + 1]

\* instantiate: outcome is what the bundle and its factory do.
FactoryOutcomes == {"missing_factory", "factory_error", "null", "ok"}

\* One invocation of the factory's create_plugin for the allocation i.
PluginFactory_create_plugin(w, i, ret) ==
    Foreign(w, "create_plugin", i, <<>>, ret)

\* Faulty variant: the pointer the factory returns is not null-checked.
Inner_instantiate_NullUnchecked(w, i, outcome) ==
    LET w0 == [w EXCEPT !.strong[i] = 1, !.plugin_ptr[i] = FALSE] IN
    CASE outcome = "missing_factory" ->
           [w |-> Arc_drop(w0, i), r |-> "MissingPluginFactory"]
      [] outcome = "factory_error" ->
           [w |-> Arc_drop(PluginFactory_create_plugin(w0, i, "error"), i),
            r |-> "InstantiationFailed"]
      [] OTHER ->
           [w |-> [PluginFactory_create_plugin(w0, i, outcome)
                     EXCEPT !.plugin_ptr[i] = TRUE],
            r |-> "Ok"]

\* The Arc is built with a null plugin_ptr; every early return drops it.
Inner_instantiate(w, i, outcome) ==
    LET w0 == [w EXCEPT !.strong[i] = 1, !.plugin_ptr[i] = FALSE] IN
    CASE outcome = "missing_factory" ->
           [w |-> Arc_drop(w0, i), r |-> "MissingPluginFactory"]
      [] outcome = "factory_error" ->
           [w |-> Arc_drop(PluginFactory_create_plugin(w0, i, "error"), i),
            r |-> "InstantiationFailed"]
      [] outcome = "null" ->
           [w |-> Arc_drop(PluginFactory_create_plugin(w0, i, "null"), i),
            r |-> "InstantiationFailed"]
      [] OTHER ->
           [w |-> [PluginFactory_create_plugin(w0, i, "ok")
                     EXCEPT !.plugin_ptr[i] = TRUE],
            r |-> "Ok"]

----------------------------------------------------------------------------
(* Processor values.  form tells which Rust type the value has:            *)
(*   "enum"   PluginAudioProcessor, tag = the variant                      *)
(*   "bare"   StartedPluginAudioProcessor or StoppedPluginAudioProcessor   *)
(*   "error"  ProcessingStartError, owning a Stopped processor             *)
(*   "none"   no processor value exists                                    *)
(* inner is the Arc the value holds.                                       *)

NoProcessor == [form |-> "none", tag |-> "-", inner |-> None]

Started(i) == [form |-> "enum", tag |-> "Started", inner |-> i]

Stopped(i) == [form |-> "enum", tag |-> "Stopped", inner |-> i]

Poisoned == [form |-> "enum", tag |-> "Poisoned", inner |-> None]

StartedPluginAudioProcessor(i) ==
    [form |-> "bare", tag |-> "Started", inner |-> i]

StoppedPluginAudioProcessor(i) ==
    [form |-> "bare", tag |-> "Stopped", inner |-> i]

ProcessingStartError(i) == [form |-> "error", tag |-> "Stopped", inner |-> i]

\* Option::take on the inner field of a Started processor.
Option_take(opt) == [taken |-> opt, left |-> None]

\* Faulty variant: the Arc is released before the plugin is stopped.
Started_drop_ReleaseFirst(w, opt) ==
    IF opt # None
    THEN Inner_stop_processing(Arc_drop(w, opt), opt)
    ELSE w

\* Drop for StartedPluginAudioProcessor, then the drop of its inner field.
Started_drop(w, opt) ==
    IF opt # None
    THEN Arc_drop(Inner_stop_processing(w, opt), opt)
    ELSE w

\* Faulty variant: the Arc is read but left in self, so the drop of the
\* consumed self stops the plugin again.
Started_stop_processing_NoTake(w, i) ==
    LET w1 == Inner_stop_processing(w, i)
    IN  [w |-> Arc_clone(Started_drop(w1, i), i),
         v |-> StoppedPluginAudioProcessor(i)]

\* StartedPluginAudioProcessor::stop_processing consumes self: the Arc is
\* taken out, the foreign stop is made, and what is left of self is dropped.
Started_stop_processing(w, i) ==
    LET t  == Option_take(i)
        w1 == Inner_stop_processing(w, t.taken)
    IN  [w |-> Started_drop(w1, t.left),
         v |-> StoppedPluginAudioProcessor(t.taken)]

\* Faulty variant: a failed start releases the Arc of the consumed self.
Stopped_start_processing_DropsSelf(w, i, ok) ==
    LET s == Inner_start_processing(w, i, ok) IN
    IF s.r = "Ok"
    THEN [w |-> s.w, r |-> "Ok", v |-> StartedPluginAudioProcessor(i)]
    ELSE [w |-> Arc_drop(s.w, i), r |-> "Err",
          v |-> ProcessingStartError(i)]

\* StoppedPluginAudioProcessor::start_processing consumes self.
Stopped_start_processing(w, i, ok) ==
    LET s == Inner_start_processing(w, i, ok) IN
    IF s.r = "Ok"
    THEN [w |-> s.w, r |-> "Ok", v |-> StartedPluginAudioProcessor(i)]
    ELSE [w |-> s.w, r |-> "Err", v |-> ProcessingStartError(i)]

\* ProcessStatus::from_raw: the decoded status, "Err" for the error status,
\* "None" for a code outside the known set.
ProcessStatus_from_raw(code) ==
    CASE code = CLAP_PROCESS_ERROR -> "Err"
      [] code = 1 -> "Continue"
      [] code = 2 -> "ContinueIfNotQuiet"
      [] code = 3 -> "Sleep"
      [] OTHER -> "None"

\* Option<T>: Absent is None, Some(v) holds v.
Absent == <<>>

Some(v) == <<v>>

Min(a, b) == IF a <= b THEN a ELSE b

U64_MAX == 2^Bits - 1

I64_MAX == 2^(Bits - 1) - 1

\* The casts `as u64` and `as i64`: the same bits read in the other type.
AsU64(v) == IF v < 0 THEN v + 2^Bits ELSE v

AsI64(v) == IF v > I64_MAX THEN v - 2^Bits ELSE v

\* Faulty variant: with both counts reported, the input count is used.
FramesCount_InputFirst(a, b) ==
    CASE a # Absent -> a[1]
      [] a = Absent /\ b # Absent -> b[1]
      [] OTHER -> 0

\* The frame count of the payload, from what the input and output buffers
\* report.
FramesCount(a, b) ==
    CASE a # Absent /\ b # Absent -> Min(a[1], b[1])
      [] a # Absent /\ b = Absent -> a[1]
      [] a = Absent /\ b # Absent -> b[1]
      [] OTHER -> 0

\* Faulty variant: the value is cast without being saturated first.
SteadyTime_Unsaturated(steady_time) ==
    IF steady_time = Absent THEN -1 ELSE AsI64(steady_time[1])

\* The steady_time field of the payload.
SteadyTime(steady_time) ==
    IF steady_time = Absent
    THEN -1
    ELSE AsI64(Min(steady_time[1], AsU64(I64_MAX)))

\* The clap_process payload sent for a request: <<steady_time, frames_count>>.
Payload(req) ==
    <<SteadyTime(req.steady_time), FramesCount(req.in_frames, req.out_frames)>>

\* Faulty variant: only a code outside the known set is a failure.
Started_process_ErrorIsStatus(w, i, req, code) ==
    IF ~table["process"]
    THEN [w |-> w, r |-> "NullProcessFunction"]
    ELSE LET w1 == Foreign(w, "process", i, Payload(req), ToString(code))
             st == ProcessStatus_from_raw(code)
         IN  IF st = "None"
             THEN [w |-> w1, r |-> "ProcessingFailed"]
             ELSE [w |-> w1, r |-> st]

\* StartedPluginAudioProcessor::process: code is what the foreign process
\* function returns.
Started_process(w, i, req, code) ==
    IF ~table["process"]
    THEN [w |-> w, r |-> "NullProcessFunction"]
    ELSE LET w1 == Foreign(w, "process", i, Payload(req), ToString(code))
             st == ProcessStatus_from_raw(code)
         IN  IF st \in {"None", "Err"}
             THEN [w |-> w1, r |-> "ProcessingFailed"]
             ELSE [w |-> w1, r |-> st]

\* Arc::ptr_eq of the held Arc and the Arc of the instance under test.
Started_matches(i, inst) == i = inst

\* Faulty variant: the held Arc is compared with itself.
Stopped_matches_Self(i, inst) == i = i

Stopped_matches(i, inst) == i = inst

----------------------------------------------------------------------------
(* PluginAudioProcessor (the enum).  Each operator returns the value left  *)
(* in *self*, the world, and the result.                                   *)

Panic(self, w) == [self |-> self, w |-> w, r |-> "panic"]

\* Faulty variant: a Stopped processor is handed out as Started.
PAP_as_started_mut_Unchecked(self) ==
    CASE self.tag \in {"Started", "Stopped"} -> "Ok"
      [] OTHER -> "panic"

PAP_as_started_mut(self) ==
    CASE self.tag = "Started" -> "Ok"
      [] self.tag = "Stopped" -> "ProcessingStopped"
      [] OTHER -> "panic"

PAP_reset(self, w) ==
    CASE self.tag \in {"Started", "Stopped"} ->
           [self |-> self, w |-> Inner_reset(w, self.inner), r |-> "Ok"]
      [] OTHER -> Panic(self, w)

\* Faulty variant: a failed start does not write the Stopped value back.
PAP_start_processing_NoRestore(self, w, ok) ==
    LET inner == self
    IN  CASE inner.tag = "Poisoned" -> Panic(Poisoned, w)
          [] inner.tag = "Started" ->
               [self |-> Started(inner.inner), w |-> w,
                r |-> "ProcessingStarted"]
          [] OTHER ->
               LET s == Stopped_start_processing(w, inner.inner, ok) IN
               IF s.r = "Ok"
               THEN [self |-> Started(s.v.inner), w |-> s.w, r |-> "Ok"]
               ELSE [self |-> Poisoned, w |-> s.w,
                     r |-> "StartProcessingFailed"]

PAP_start_processing(self, w, ok) ==
    LET inner == self   \* core::mem::replace(self, Poisoned)
    IN  CASE inner.tag = "Poisoned" -> Panic(Poisoned, w)
          [] inner.tag = "Started" ->
               [self |-> Started(inner.inner), w |-> w,
                r |-> "ProcessingStarted"]
          [] OTHER ->
               LET s == Stopped_start_processing(w, inner.inner, ok) IN
               IF s.r = "Ok"
               THEN [self |-> Started(s.v.inner), w |-> s.w, r |-> "Ok"]
               ELSE [self |-> Stopped(s.v.inner), w |-> s.w,
                     r |-> "StartProcessingFailed"]

\* Faulty variant: the idempotent form behaves as the strict one.
PAP_ensure_processing_started_Strict(self, w, ok) ==
    PAP_start_processing(self, w, ok)

PAP_ensure_processing_started(self, w, ok) ==
    IF self.tag = "Started"
    THEN [self |-> self, w |-> w, r |-> "Ok"]
    ELSE PAP_start_processing(self, w, ok)

PAP_ensure_processing_stopped(self, w) ==
    LET inner == self   \* core::mem::replace(self, Poisoned)
    IN  CASE inner.tag = "Poisoned" -> Panic(Poisoned, w)
          [] inner.tag = "Stopped" ->
               [self |-> Stopped(inner.inner), w |-> w, r |-> "Ok"]
          [] OTHER ->
               LET s == Started_stop_processing(w, inner.inner) IN
               [self |-> Stopped(s.v.inner), w |-> s.w, r |-> "Ok"]

\* Faulty variant: a refused stop does not write the Stopped value back.
PAP_stop_processing_NoRestore(self, w) ==
    LET inner == self
    IN  CASE inner.tag = "Poisoned" -> Panic(Poisoned, w)
          [] inner.tag = "Stopped" ->
               [self |-> Poisoned, w |-> w, r |-> "ProcessingStopped"]
          [] OTHER ->
               LET s == Started_stop_processing(w, inner.inner) IN
               [self |-> Stopped(s.v.inner), w |-> s.w, r |-> "Ok"]

PAP_stop_processing(self, w) ==
    LET inner == self   \* core::mem::replace(self, Poisoned)
    IN  CASE inner.tag = "Poisoned" -> Panic(Poisoned, w)
          [] inner.tag = "Stopped" ->
               [self |-> Stopped(inner.inner), w |-> w,
                r |-> "ProcessingStopped"]
          [] OTHER ->
               LET s == Started_stop_processing(w, inner.inner) IN
               [self |-> Stopped(s.v.inner), w |-> s.w, r |-> "Ok"]

\* into_started and into_stopped consume the enum; self is the value the
\* caller owns afterwards.
PAP_into_started(self, w, ok) ==
    CASE self.tag = "Started" ->
           [self |-> StartedPluginAudioProcessor(self.inner), w |-> w,
            r |-> "Ok"]
      [] self.tag = "Stopped" ->
           LET s == Stopped_start_processing(w, self.inner, ok) IN
           [self |-> s.v, w |-> s.w, r |-> s.r]
      [] OTHER -> Panic(self, w)

PAP_into_stopped(self, w) ==
    CASE self.tag = "Started" ->
           LET s == Started_stop_processing(w, self.inner) IN
           [self |-> s.v, w |-> s.w, r |-> "Ok"]
      [] self.tag = "Stopped" ->
           [self |-> StoppedPluginAudioProcessor(self.inner), w |-> w,
            r |-> "Ok"]
      [] OTHER -> Panic(self, w)

PAP_matches(self, inst) ==
    CASE self.tag = "Started" -> Bool(Started_matches(self.inner, inst))
      [] self.tag = "Stopped" -> Bool(Stopped_matches(self.inner, inst))
      [] OTHER -> "panic"

\* From<StartedPluginAudioProcessor> and From<StoppedPluginAudioProcessor>.
PAP_from(p) == [form |-> "enum", tag |-> p.tag, inner |-> p.inner]

ProcessingStartError_into_stopped_processor(e) ==
    StoppedPluginAudioProcessor(e.inner)

\* Dropping a processor value of any form.
Processor_drop(w, p) ==
    CASE p.tag = "Started" -> Started_drop(w, p.inner)
      [] p.tag = "Stopped" -> Arc_drop(w, p.inner)
      [] OTHER -> w

----------------------------------------------------------------------------
(* The plugin side: PluginWrapper (wrapper.rs).  Its operations work on a  *)
(* wrapper record p: the facet cell, the number of facets alive, and the   *)
(* trace of the calls made during the operation, each with its result.     *)

Result(k, v) == [kind |-> k, value |-> v]

RetName(r) == IF r.kind = "Ok" THEN "Ok" ELSE r.value

Ran(p, f, ret) == [p EXCEPT !.ran = Append(@, [fn |-> f, ret |-> ret])]

\* The raw clap_plugin pointers a host may pass: null, with a null
\* plugin_data, with the data of a plugin that was not initialized, and
\* with the data of an initialized plugin.
RawPlugins ==
    {[null |-> TRUE, data_null |-> TRUE, inited |-> FALSE],
     [null |-> FALSE, data_null |-> TRUE, inited |-> FALSE],
     [null |-> FALSE, data_null |-> FALSE, inited |-> FALSE],
     [null |-> FALSE, data_null |-> FALSE, inited |-> TRUE]}

ReadyPlugin == [null |-> FALSE, data_null |-> FALSE, inited |-> TRUE]

\* What a handler closure does with the wrapper it is given: one of the
\* wrapper's operations, or plugin logic of its own ("closure"); outcome is
\* what the plugin logic it reaches does.
NoConfig == <<>>

\* The clap_log_severity values.
Severities ==
    {"CLAP_LOG_DEBUG", "CLAP_LOG_INFO", "CLAP_LOG_WARNING", "CLAP_LOG_ERROR",
     "CLAP_LOG_FATAL", "CLAP_LOG_HOST_MISBEHAVING",
     "CLAP_LOG_PLUGIN_MISBEHAVING"}

\* The variants of PluginWrapperError that carry no severity.
PlainErrors ==
    {"NullPluginInstance", "AlreadyDestroyed", "NulPtr", "InvalidParameter",
     "UninitializedPlugin", "PluginCalledDuringInitialization", "Destroying",
     "InitializationAlreadyFailed", "AlreadyInitialized", "ActivatedPlugin",
     "DeactivatedPlugin", "DeactivationRequiredForFunction", "Panic",
     "Plugin", "StringEncoding", "InvalidCString"}

\* with_severity(s) applied to an error: Any(s, _).
PWE_with_severity(severity) == "Any(" \o severity \o ")"

AnyErrors == {PWE_with_severity(s) : s \in Severities}

\* Faulty variant: a panic falls into the catch-all arm.
PWE_severity_PanicIsHost(e) ==
    CASE e = "Plugin" -> "CLAP_LOG_ERROR"
      [] e \in AnyErrors ->
           CHOOSE s \in Severities : e = PWE_with_severity(s)
      [] OTHER -> "CLAP_LOG_HOST_MISBEHAVING"

PWE_severity(e) ==
    CASE e = "Plugin" -> "CLAP_LOG_ERROR"
      [] e = "Panic" -> "CLAP_LOG_PLUGIN_MISBEHAVING"
      [] e \in AnyErrors ->
           CHOOSE s \in Severities : e = PWE_with_severity(s)
      [] OTHER -> "CLAP_LOG_HOST_MISBEHAVING"

\* error is what the handler returns when its outcome is "error": any
\* error for plugin logic of its own, the plugin's error for activation.
Handlers ==
    [kind : {"activate"}, cfg : Configs, outcome : {"ok", "error", "panic"},
     error : {"Plugin"}]
      \cup [kind : {"closure"}, cfg : {NoConfig}, outcome : {"ok", "panic"},
            error : {"Plugin"}]
      \cup [kind : {"closure"}, cfg : {NoConfig}, outcome : {"error"},
            error : PlainErrors \cup AnyErrors]
      \cup [kind : {"deactivate"}, cfg : {NoConfig},
            outcome : {"ok", "panic"}, error : {"Plugin"}]
      \cup [kind : {"audio_processor"}, cfg : {NoConfig}, outcome : {"ok"},
            error : {"Plugin"}]

\* The handlers handle_plugin_data takes are given the plugin data, not the
\* wrapper.
DataHandlers == {h \in Handlers : h.kind = "closure"}

PW_is_active(p) == p.audio_processor # Absent

\* Faulty variant: the activity check is missing.
PW_activate_Unchecked(p, audio_config, outcome) ==
    LET ret == CASE outcome = "ok" -> Result("Ok", "unit")
                 [] outcome = "error" -> Result("Err", "Plugin")
                 [] OTHER -> Result("Unwind", "panic")
        p1 == Ran(p, "plugin_activate", ret.kind)
        p2 == IF outcome = "ok"
              THEN [p1 EXCEPT !.audio_processor = Some(audio_config),
                              !.facets = @ + 1,
                              !.last = "activate", !.torn = FALSE]
              ELSE p1
    IN  [p |-> Ran(p2, "wrapper_activate", RetName(ret)), r |-> ret]

PW_activate(p, audio_config, outcome) ==
    IF PW_is_active(p)
    THEN [p |-> Ran(p, "wrapper_activate", "ActivatedPlugin"),
          r |-> Result("Err", "ActivatedPlugin")]
    ELSE LET ret == CASE outcome = "ok" -> Result("Ok", "unit")
                      [] outcome = "error" -> Result("Err", "Plugin")
                      [] OTHER -> Result("Unwind", "panic")
             p1 == Ran(p, "plugin_activate", ret.kind)
             p2 == IF outcome = "ok"
                   THEN [p1 EXCEPT !.audio_processor = Some(audio_config),
                                   !.facets = @ + 1,
                                   !.last = "activate", !.torn = FALSE]
                   ELSE p1
         IN  [p |-> Ran(p2, "wrapper_activate", RetName(ret)), r |-> ret]

\* Faulty variant: the facet is borrowed, not taken, for the teardown.
PW_deactivate_KeepsFacet(p, outcome) ==
    IF p.audio_processor = Absent
    THEN [p |-> Ran(p, "wrapper_deactivate", "DeactivatedPlugin"),
          r |-> Result("Err", "DeactivatedPlugin")]
    ELSE LET ret == IF outcome = "panic" THEN Result("Unwind", "panic")
                    ELSE Result("Ok", "unit")
             p1 == Ran(p, "plugin_deactivate", ret.kind)
             p2 == IF ret.kind = "Ok"
                   THEN [p1 EXCEPT !.last = "deactivate"]
                   ELSE [p1 EXCEPT !.torn = TRUE]
         IN  [p |-> Ran(p2, "wrapper_deactivate", RetName(ret)), r |-> ret]

\* The cell is emptied before the teardown runs; the teardown consumes the
\* facet, also when it panics.
PW_deactivate(p, outcome) ==
    IF p.audio_processor = Absent
    THEN [p |-> Ran(p, "wrapper_deactivate", "DeactivatedPlugin"),
          r |-> Result("Err", "DeactivatedPlugin")]
    ELSE LET ret == IF outcome = "panic" THEN Result("Unwind", "panic")
                    ELSE Result("Ok", "unit")
             p0 == [p EXCEPT !.audio_processor = Absent]
             p1 == [Ran(p0, "plugin_deactivate", ret.kind)
                      EXCEPT !.facets = @ - 1]
             p2 == IF ret.kind = "Ok"
                   THEN [p1 EXCEPT !.last = "deactivate"]
                   ELSE [p1 EXCEPT !.torn = TRUE]
         IN  [p |-> Ran(p2, "wrapper_deactivate", RetName(ret)), r |-> ret]

\* Faulty variant: the accessor hands out a pointer whatever the cell holds.
PW_audio_processor_Unchecked(p) ==
    [p |-> Ran(p, "wrapper_audio_processor", "Ok"),
     r |-> Result("Ok", ToString(p.audio_processor))]

PW_audio_processor(p) ==
    IF p.audio_processor = Absent
    THEN [p |-> Ran(p, "wrapper_audio_processor", "DeactivatedPlugin"),
          r |-> Result("Err", "DeactivatedPlugin")]
    ELSE [p |-> Ran(p, "wrapper_audio_processor", "Ok"),
          r |-> Result("Ok", ToString(p.audio_processor))]

\* PluginBoxInner::wrapper: the wrapper of an initialized plugin.
PluginBoxInner_wrapper(raw) ==
    IF raw.inited THEN Result("Ok", "wrapper")
    ELSE Result("Err", "UninitializedPlugin")

\* Faulty variant: the instance pointer is not null-checked.
PW_from_raw_NoNullCheck(raw) ==
    PluginBoxInner_wrapper(ReadyPlugin)

PW_from_raw(raw) ==
    CASE raw.null -> Result("Err", "NullPluginInstance")
      [] ~raw.null /\ raw.data_null -> Result("Err", "AlreadyDestroyed")
      [] OTHER -> PluginBoxInner_wrapper(raw)

PW_plugin_data_from_raw(raw) ==
    CASE raw.null -> Result("Err", "NullPluginInstance")
      [] ~raw.null /\ raw.data_null -> Result("Err", "AlreadyDestroyed")
      [] OTHER -> Result("Ok", "data")

\* The handler closure h applied to the wrapper.
RunHandler(p, h) ==
    LET out ==
          CASE h.kind = "activate" -> PW_activate(p, h.cfg, h.outcome)
            [] h.kind = "deactivate" -> PW_deactivate(p, h.outcome)
            [] h.kind = "audio_processor" -> PW_audio_processor(p)
            [] OTHER ->
                 [p |-> p,
                  r |-> CASE h.outcome = "ok" -> Result("Ok", "value")
                          [] h.outcome = "error" -> Result("Err", h.error)
                          [] OTHER -> Result("Unwind", "panic")]
    IN  [p |-> Ran(out.p, "handler", out.r.kind), r |-> out.r]

\* Faulty variant: the pass-through of the test build in every build.
Panic_catch_unwind_PassThrough(test, r) ==
    r

\* panic::catch_unwind of a computation that ended as r: std's in a build
\* that is not a test build, and a pass-through in a test build, where a
\* panic keeps unwinding.
Panic_catch_unwind(test, r) ==
    IF r.kind = "Unwind" /\ ~test THEN Result("Caught", "panic") ELSE r

PW_handle_panic(p, test, h) ==
    LET out == RunHandler(p, h)
        c == Panic_catch_unwind(test, out.r)
    IN
    [p |-> out.p,
     r |-> IF c.kind = "Caught" THEN Result("Err", "Panic") ELSE c]

\* logging::plugin_log: one message of the error's severity, to the host's
\* log when the host can be reached through the pointer and its log works,
\* to stderr otherwise.
Logging_plugin_log(raw, e, host_log) ==
    <<[error |-> e,
       severity |-> PWE_severity(e),
       sink |-> IF ~raw.null /\ ~raw.data_null /\ host_log THEN "host"
                ELSE "stderr"]>>

\* The match of handle and handle_plugin_data on the checked result.
Dispatch(p, fr, out, raw, host_log) ==
    CASE fr.kind = "Err" ->
           [p |-> p, r |-> Result("None", "-"),
            log |-> Logging_plugin_log(raw, fr.value, host_log)]
      [] fr.kind = "Ok" /\ out.r.kind = "Ok" ->
           [p |-> out.p, r |-> Result("Some", out.r.value), log |-> <<>>]
      [] fr.kind = "Ok" /\ out.r.kind = "Err" ->
           [p |-> out.p, r |-> Result("None", "-"),
            log |-> Logging_plugin_log(raw, out.r.value, host_log)]
      [] OTHER -> [p |-> out.p, r |-> out.r, log |-> <<>>]

\* Faulty variant: a failure is dropped without a log message.
PW_handle_Silent(p, test, raw, h, host_log) ==
    LET d == Dispatch(p, PW_from_raw(raw), PW_handle_panic(p, test, h),
                      raw, host_log)
    IN  [d EXCEPT !.log = <<>>]

PW_handle(p, test, raw, h, host_log) ==
    Dispatch(p, PW_from_raw(raw), PW_handle_panic(p, test, h), raw,
             host_log)

PW_handle_plugin_data(p, test, raw, h, host_log) ==
    Dispatch(p, PW_plugin_data_from_raw(raw), PW_handle_panic(p, test, h),
             raw, host_log)

\* A wrapper as PluginWrapper::new leaves it, before any call.
PluginWrapper_new ==
    /\ pw_audio_processor = Absent
    /\ pw_facets = 0
    /\ pw_last = "none"
    /\ pw_torn = FALSE
    /\ pw_ran = <<>>
    /\ pw_log = <<>>
    /\ pw_op = [name |-> "new", raw |-> ReadyPlugin,
                handler |-> [kind |-> "closure", cfg |-> NoConfig,
                             outcome |-> "ok", error |-> "Plugin"]]
    /\ pw_res = Result("Ok", "unit")

----------------------------------------------------------------------------
(* The state machine.                                                      *)

\* The host side before any instance exists.
HostNew ==
    /\ nextId = 1
    /\ strong = [i \in Ids |-> 0]
    /\ plugin_ptr = [i \in Ids |-> FALSE]
    /\ audio_processor = [i \in Ids |-> FALSE]
    /\ destroyed = [i \in Ids |-> 0]
    /\ processing = [i \in Ids |-> FALSE]
    /\ calls = <<>>
    /\ instance = None
    /\ processor = NoProcessor
    /\ request = <<>>
    /\ op = "init"
    /\ res = "Ok"

Init ==
    /\ table \in [Entries -> BOOLEAN]
    /\ HostNew
    /\ cfg_test = FALSE
    /\ PluginWrapper_new

\* An operation on the instance side that leaves the processor value alone.
Done(name, w, r) ==
    /\ SetWorld(w)
    /\ op' = name
    /\ res' = r
    /\ request' = <<>>
    /\ UNCHANGED <<table, pluginVars>>

\* An operation on the processor value.
ProcessorDone(name, out) ==
    /\ Done(name, out.w, out.r)
    /\ processor' = out.self
    /\ UNCHANGED <<nextId, instance>>

\* A process request on the processor value.
ProcessDone(req, out) ==
    /\ SetWorld(out.w)
    /\ op' = "process"
    /\ res' = out.r
    /\ request' = <<req>>
    /\ UNCHANGED <<table, processor, nextId, instance, pluginVars>>

\* PluginInstanceInner::instantiate, the instance is kept on success.
Create(outcome) ==
    /\ instance = None
    /\ nextId <= MaxInstances
    /\ LET out == Inner_instantiate(World, nextId, outcome) IN
       /\ Done("create", out.w, out.r)
       /\ instance' = IF out.r = "Ok" THEN nextId ELSE None
    /\ nextId' = nextId + 1
    /\ UNCHANGED processor

\* activate needs &mut PluginInstanceInner, so no processor holds the Arc;
\* on success the Stopped processor is made from a clone of the Arc.
Activate(cfg, ok) ==
    /\ instance # None
    /\ processor = NoProcessor
    /\ LET out == Inner_activate(World, instance, cfg, ok) IN
       IF out.r = "Ok"
       THEN /\ Done("activate", Arc_clone(out.w, instance), out.r)
            /\ processor' = StoppedPluginAudioProcessor(instance)
       ELSE /\ Done("activate", out.w, out.r)
            /\ UNCHANGED processor
    /\ UNCHANGED <<nextId, instance>>

\* deactivate_with needs &mut PluginInstanceInner: the Arc is unique.
Deactivate ==
    /\ instance # None
    /\ strong[instance] = 1
    /\ LET out == Inner_deactivate_with(World, instance) IN
       Done("deactivate", out.w, out.r)
    /\ UNCHANGED <<nextId, instance, processor>>

OnMainThread ==
    /\ instance # None
    /\ Done("on_main_thread", Inner_on_main_thread(World, instance), "Ok")
    /\ UNCHANGED <<nextId, instance, processor>>

\* The control context releases its PluginInstance, by leaving a scope or
\* while a panic unwinds.
DropInstance(unwinding) ==
    /\ instance # None
    /\ Done(IF unwinding THEN "unwind_instance" ELSE "drop_instance",
            Arc_drop(World, instance), "Ok")
    /\ instance' = None
    /\ UNCHANGED <<nextId, processor>>

\* The processing context releases its processor value.
DropProcessor(unwinding) ==
    /\ processor # NoProcessor
    /\ Done(IF unwinding THEN "unwind_processor" ELSE "drop_processor",
            Processor_drop(World, processor), "Ok")
    /\ processor' = NoProcessor
    /\ UNCHANGED <<nextId, instance>>

StartProcessing(ok) ==
    /\ processor.form = "enum"
    /\ ProcessorDone("start_processing",
                     PAP_start_processing(processor, World, ok))

EnsureProcessingStarted(ok) ==
    /\ processor.form = "enum"
    /\ ProcessorDone("ensure_processing_started",
                     PAP_ensure_processing_started(processor, World, ok))

StopProcessing ==
    /\ processor.form = "enum"
    /\ ProcessorDone("stop_processing",
                     PAP_stop_processing(processor, World))

EnsureProcessingStopped ==
    /\ processor.form = "enum"
    /\ ProcessorDone("ensure_processing_stopped",
                     PAP_ensure_processing_stopped(processor, World))

Reset ==
    /\ processor.form = "enum"
    /\ ProcessorDone("reset", PAP_reset(processor, World))

\* A process request on the enum: as_started_mut()?.process(..).
Process(req, code) ==
    /\ processor.form = "enum"
    /\ LET a == PAP_as_started_mut(processor) IN
       IF a = "Ok"
       THEN ProcessDone(req,
                        Started_process(World, processor.inner, req, code))
       ELSE ProcessDone(req, [w |-> World, r |-> a])

IntoStarted(ok) ==
    /\ processor.form = "enum"
    /\ ProcessorDone("into_started",
                     PAP_into_started(processor, World, ok))

IntoStopped ==
    /\ processor.form = "enum"
    /\ ProcessorDone("into_stopped", PAP_into_stopped(processor, World))

\* matches, of the enum or of a Started or Stopped processor, against the
\* PluginInstance the control context holds.
Matches ==
    /\ processor.form \in {"enum", "bare"}
    /\ instance # None
    /\ ProcessorDone("matches",
                     [self |-> processor, w |-> World,
                      r |-> PAP_matches(processor, instance)])

\* A Started or Stopped processor is wrapped into the enum.
From ==
    /\ processor.form = "bare"
    /\ ProcessorDone("from",
                     [self |-> PAP_from(processor), w |-> World, r |-> "Ok"])

IntoStoppedProcessor ==
    /\ processor.form = "error"
    /\ ProcessorDone("into_stopped_processor",
                     [self |-> ProcessingStartError_into_stopped_processor(
                                   processor),
                      w |-> World, r |-> "Ok"])

Next ==
    \/ \E outcome \in FactoryOutcomes : Create(outcome)
    \/ \E cfg \in Configs, ok \in BOOLEAN : Activate(cfg, ok)
    \/ Deactivate
    \/ OnMainThread
    \/ \E unwinding \in BOOLEAN : DropInstance(unwinding)
    \/ \E unwinding \in BOOLEAN : DropProcessor(unwinding)
    \/ \E ok \in BOOLEAN : StartProcessing(ok)
    \/ \E ok \in BOOLEAN : EnsureProcessingStarted(ok)
    \/ StopProcessing
    \/ EnsureProcessingStopped
    \/ Reset
    \/ \E req \in LifecycleRequests, code \in StatusCodes : Process(req, code)
    \/ \E ok \in BOOLEAN : IntoStarted(ok)
    \/ IntoStopped
    \/ Matches
    \/ From
    \/ IntoStoppedProcessor

Spec == Init /\ [][Next]_vars

----------------------------------------------------------------------------
(* Process cycles: a Started processor of an active instance, as left by   *)
(* create, activate and start_processing, serves process requests of every *)
(* shape.                                                                  *)

ProcessInit ==
    /\ table \in {t \in [Entries -> BOOLEAN] :
                    \A e \in Entries \ {"process"} : t[e]}
    /\ nextId = 2
    /\ strong = [i \in Ids |-> IF i = 1 THEN 2 ELSE 0]
    /\ plugin_ptr = [i \in Ids |-> i = 1]
    /\ audio_processor = [i \in Ids |-> i = 1]
    /\ destroyed = [i \in Ids |-> 0]
    /\ processing = [i \in Ids |-> i = 1]
    /\ calls = <<[fn |-> "start_processing", inst |-> 1, arg |-> <<>>,
                  ret |-> "true", active |-> TRUE, started |-> FALSE,
                  refs |-> 2]>>
    /\ instance = 1
    /\ processor = Started(1)
    /\ request = <<>>
    /\ op = "start_processing"
    /\ res = "Ok"
    /\ cfg_test = FALSE
    /\ PluginWrapper_new

ProcessNext ==
    \E req \in Requests, code \in StatusCodes : Process(req, code)

ProcessSpec == ProcessInit /\ [][ProcessNext]_vars

----------------------------------------------------------------------------
(* The plugin side as a state machine: a host calls into one plugin        *)
(* wrapper, through the dispatch entry points and directly.                *)

PluginWrapper ==
    [audio_processor |-> pw_audio_processor, facets |-> pw_facets,
     last |-> pw_last, torn |-> pw_torn, ran |-> <<>>]

PluginInit ==
    /\ table = [e \in Entries |-> TRUE]
    /\ HostNew
    /\ cfg_test \in BOOLEAN
    /\ PluginWrapper_new

PluginDone(name, raw, h, out, log) ==
    /\ pw_audio_processor' = out.p.audio_processor
    /\ pw_facets' = out.p.facets
    /\ pw_last' = out.p.last
    /\ pw_torn' = out.p.torn
    /\ pw_ran' = out.p.ran
    /\ pw_log' = log
    /\ pw_op' = [name |-> name, raw |-> raw, handler |-> h]
    /\ pw_res' = out.r
    /\ UNCHANGED <<cfg_test, hostVars>>

PWActivate(audio_config, outcome) ==
    PluginDone("activate", ReadyPlugin,
               [kind |-> "activate", cfg |-> audio_config,
                outcome |-> outcome, error |-> "Plugin"],
               PW_activate(PluginWrapper, audio_config, outcome), <<>>)

PWDeactivate(outcome) ==
    PluginDone("deactivate", ReadyPlugin,
               [kind |-> "deactivate", cfg |-> NoConfig,
                outcome |-> outcome, error |-> "Plugin"],
               PW_deactivate(PluginWrapper, outcome), <<>>)

PWAudioProcessor ==
    PluginDone("audio_processor", ReadyPlugin,
               [kind |-> "audio_processor", cfg |-> NoConfig,
                outcome |-> "ok", error |-> "Plugin"],
               PW_audio_processor(PluginWrapper), <<>>)

Handle(raw, h, host_log) ==
    LET d == PW_handle(PluginWrapper, cfg_test, raw, h, host_log) IN
    PluginDone("handle", raw, h, d, d.log)

HandlePluginData(raw, h, host_log) ==
    LET d == PW_handle_plugin_data(PluginWrapper, cfg_test, raw, h, host_log)
    IN  PluginDone("handle_plugin_data", raw, h, d, d.log)

PluginNext ==
    \/ \E c \in Configs, o \in {"ok", "error", "panic"} : PWActivate(c, o)
    \/ \E o \in {"ok", "panic"} : PWDeactivate(o)
    \/ PWAudioProcessor
    \/ \E raw \in RawPlugins, h \in Handlers, l \in BOOLEAN :
         Handle(raw, h, l)
    \/ \E raw \in RawPlugins, h \in DataHandlers, l \in BOOLEAN :
         HandlePluginData(raw, h, l)

PluginSpec == PluginInit /\ [][PluginNext]_vars

----------------------------------------------------------------------------
(* Properties.                                                             *)

\* The calls of c to the function (or closure) f of instance i.
CallsTo(c, f, i) ==
    LET Test(x) == x.fn = f /\ x.inst = i IN SelectSeq(c, Test)

\* The names of the foreign functions c invokes, in order.
ForeignNames(c) ==
    LET Test(x) == x.fn \in ForeignFns
        fc == SelectSeq(c, Test)
    IN  [k \in 1..Len(fc) |-> fc[k].fn]

IsEnum(p, t) == p.form = "enum" /\ p.tag = t

\* C1: a process request on a Stopped processor fails with
\* ProcessingStopped, leaves the processor as it was and makes no foreign
\* call; every step that invokes the foreign process function starts and
\* ends with a Started processor holding the instance it is invoked on.
C1_ProcessOnlyWhenStarted ==
    [][ /\ (op' = "process" /\ IsEnum(processor, "Stopped"))
            => /\ res' = "ProcessingStopped"
               /\ processor' = processor
               /\ calls' = <<>>
        /\ \A k \in 1..Len(calls') :
              calls'[k].fn = "process"
                => /\ processor.tag = "Started"
                   /\ processor'.tag = "Started"
                   /\ processor.inner = calls'[k].inst
                   /\ op' = "process" ]_vars

C1_Witness ==
    /\ op = "process"
    /\ res = "ProcessingStopped"
    /\ IsEnum(processor, "Stopped")
    /\ table["process"]

\* C2: on a Started processor ensure_processing_started succeeds and the
\* strict start_processing reports ProcessingStarted; both leave the
\* processor Started and make no foreign call.  The foreign
\* start_processing is only ever invoked, and then once, by a step that
\* begins with a Stopped processor.
C2_StartOnStarted ==
    [][ /\ (op' = "ensure_processing_started" /\ IsEnum(processor, "Started"))
            => /\ res' = "Ok"
               /\ processor' = processor
               /\ calls' = <<>>
        /\ (op' = "start_processing" /\ IsEnum(processor, "Started"))
            => /\ res' = "ProcessingStarted"
               /\ processor' = processor
               /\ calls' = <<>>
        /\ \A i \in Ids :
              CallsTo(calls', "start_processing", i) # <<>>
                => /\ processor.tag = "Stopped"
                   /\ processor.inner = i
                   /\ Len(CallsTo(calls', "start_processing", i)) = 1 ]_vars

\* ensure_processing_started has just returned without a foreign call
\* although the table has a start_processing entry: the processor was
\* already Started.
C2_Witness ==
    /\ op = "ensure_processing_started"
    /\ res = "Ok"
    /\ calls = <<>>
    /\ table["start_processing"]
    /\ IsEnum(processor, "Started")

\* The names among fs of what c does on instance i, in order.
NamesOn(c, fs, i) ==
    LET Test(x) == x.fn \in fs /\ x.inst = i
        fc == SelectSeq(c, Test)
    IN  [k \in 1..Len(fc) |-> fc[k].fn]

\* The step releases the last reference to instance i, which was created
\* successfully and is still active.
DropsActive(i) ==
    /\ strong[i] > 0
    /\ strong'[i] = 0
    /\ plugin_ptr[i]
    /\ audio_processor[i]

\* C3 as stated: a step that drops a still-active instance makes exactly
\* one foreign deactivate call and then exactly one foreign destroy call.
C3_DropActiveAsStated ==
    [][ \A i \in Ids :
          DropsActive(i)
            => NamesOn(calls', {"deactivate", "destroy"}, i)
                 = <<"deactivate", "destroy">> ]_vars

\* C3, amended: a step that drops a still-active instance, whether or not a
\* panic is unwinding, makes one foreign deactivate call if the table has a
\* deactivate entry and then one foreign destroy call if the table has a
\* destroy entry, in that order, and leaves the instance inactive.
C3_DropActive ==
    [][ \A i \in Ids :
          DropsActive(i)
            => /\ NamesOn(calls', {"deactivate", "destroy"}, i)
                    = (IF table["deactivate"] THEN <<"deactivate">> ELSE <<>>)
                      \o (IF table["destroy"] THEN <<"destroy">> ELSE <<>>)
               /\ ~audio_processor'[i] ]_vars

\* An active instance has just been dropped while a panic unwinds, and both
\* entries are in the table.
C3_Witness ==
    /\ op = "unwind_instance"
    /\ table["deactivate"]
    /\ table["destroy"]
    /\ \E i \in Ids :
          /\ strong[i] = 0
          /\ NamesOn(calls, {"deactivate", "facet_teardown", "destroy"}, i)
               = <<"deactivate", "facet_teardown", "destroy">>

\* No step invokes a foreign function of an instance that was destroyed
\* before the step, and within a step nothing follows destroy.
NothingAfterDestroy ==
    \A i \in Ids :
       /\ destroyed[i] >= 1 => NamesOn(calls', ForeignFns, i) = <<>>
       /\ \A k \in 1..Len(calls') :
             (calls'[k].fn = "destroy" /\ calls'[k].inst = i)
               => \A m \in (k+1)..Len(calls') : calls'[m].inst # i

\* C4 as stated: a successfully created instance has been destroyed exactly
\* once when its last reference is gone and not at all before, and nothing
\* is invoked on it after destroy.
C4_DestroyOnceAsStated ==
    /\ [](\A i \in Ids :
            plugin_ptr[i] => destroyed[i] = IF strong[i] = 0 THEN 1 ELSE 0)
    /\ [][NothingAfterDestroy]_vars

\* C4, amended: the foreign destroy function of a successfully created
\* instance has been invoked exactly once when the last reference is gone
\* and the table has a destroy entry, and not at all otherwise; nothing is
\* invoked on the instance after destroy.
C4_DestroyOnce ==
    /\ [](\A i \in Ids :
            /\ plugin_ptr[i]
                 => destroyed[i]
                      = IF strong[i] = 0 /\ table["destroy"] THEN 1 ELSE 0
            /\ ~plugin_ptr[i] => destroyed[i] = 0)
    /\ [][NothingAfterDestroy]_vars

\* An instance has been started, and later destroyed by the release of the
\* processor, its last reference.
C4_Witness ==
    /\ op \in {"drop_processor", "unwind_processor"}
    /\ \E i \in Ids :
          /\ destroyed[i] = 1
          /\ strong[i] = 0
          /\ NamesOn(calls, ForeignFns, i)
               = <<"stop_processing", "deactivate", "destroy">>

\* An activate-deactivate cycle from the current state, for the instance
\* held: both succeed and the world is the one the cycle began in.
CycleSucceeds(cfg) ==
    LET a == Inner_activate(World, instance, cfg, TRUE)
        d == Inner_deactivate_with(a.w, instance)
    IN  /\ a.r = "Ok"
        /\ a.w.audio_processor[instance]
        /\ d.r = "Ok"
        /\ [d.w EXCEPT !.calls = <<>>] = World

\* C5: whenever the instance held is inactive and exclusively owned and the
\* table has an activate entry, then for every valid configuration an
\* activate whose foreign call reports success followed by a deactivate
\* both succeed and restore the state the cycle began in, so that the cycle
\* can be repeated; and every activate step whose foreign call reports
\* success and every deactivate step on an active instance succeeds.
C5_ActivateDeactivateCycle ==
    /\ []((/\ instance # None
           /\ strong[instance] = 1
           /\ ~audio_processor[instance]
           /\ table["activate"])
            => \A cfg \in Configs : CycleSucceeds(cfg))
    /\ [][ /\ (op' = "deactivate" /\ audio_processor[instance])
               => /\ res' = "Ok"
                  /\ ~audio_processor'[instance]
           /\ (/\ op' = "activate"
               /\ ~audio_processor[instance]
               /\ \E k \in 1..Len(calls') :
                     calls'[k].fn = "activate" /\ calls'[k].ret = "true")
               => /\ res' = "Ok"
                  /\ audio_processor'[instance] ]_vars

\* A deactivate has just succeeded (so an activate succeeded before it) and
\* the instance is ready for the next cycle.
C5_Witness ==
    /\ op = "deactivate"
    /\ res = "Ok"
    /\ instance # None
    /\ strong[instance] = 1
    /\ ~audio_processor[instance]
    /\ table["activate"]
    /\ table["deactivate"]

\* C6: deactivate on an instance that is not active fails with
\* DeactivatedPlugin, runs no closure and makes no foreign call, and leaves
\* the instance as it was.
C6_DeactivateInactive ==
    [][ (op' = "deactivate" /\ ~audio_processor[instance])
          => /\ res' = "DeactivatedPlugin"
             /\ calls' = <<>>
             /\ audio_processor' = audio_processor
             /\ strong' = strong
             /\ destroyed' = destroyed ]_vars

C6_Witness ==
    /\ op = "deactivate"
    /\ res = "DeactivatedPlugin"
    /\ table["deactivate"]
    /\ instance # None
    /\ ~audio_processor[instance]

\* C7: whatever operations have returned, the processor is never Poisoned
\* and no operation has panicked.
C7_NeverPoisoned ==
    /\ processor.form = "enum" => processor.tag \in {"Started", "Stopped"}
    /\ processor.tag # "Poisoned"
    /\ res # "panic"

\* A start has just failed and the processor is Stopped again.
C7_Witness ==
    /\ op = "start_processing"
    /\ res = "StartProcessingFailed"
    /\ IsEnum(processor, "Stopped")

StartsFromStopped ==
    /\ op' \in {"start_processing", "ensure_processing_started"}
    /\ IsEnum(processor, "Stopped")

\* C8 as stated: a start on a Stopped processor invokes the foreign
\* start_processing once, and the processor is Started after a reported
\* success, Stopped with StartProcessingFailed after a reported failure.
C8_StartFromStoppedAsStated ==
    [][ StartsFromStopped
          => LET c == CallsTo(calls', "start_processing", processor.inner) IN
             /\ Len(c) = 1
             /\ Len(calls') = 1
             /\ c[1].ret = "true"
                  => res' = "Ok" /\ processor' = Started(processor.inner)
             /\ c[1].ret = "false"
                  => /\ res' = "StartProcessingFailed"
                     /\ processor' = Stopped(processor.inner) ]_vars

\* C8, amended: a start on a Stopped processor invokes the foreign
\* start_processing once if the table has the entry; after a reported
\* success, or with no entry and no call, the processor is Started, and
\* after a reported failure it is Stopped with StartProcessingFailed.
C8_StartFromStopped ==
    [][ StartsFromStopped
          => LET c == CallsTo(calls', "start_processing", processor.inner) IN
             /\ Len(c) = IF table["start_processing"] THEN 1 ELSE 0
             /\ Len(calls') = Len(c)
             /\ (c = <<>> \/ c[1].ret = "true")
                  => res' = "Ok" /\ processor' = Started(processor.inner)
             /\ (c # <<>> /\ c[1].ret = "false")
                  => /\ res' = "StartProcessingFailed"
                     /\ processor' = Stopped(processor.inner) ]_vars

C8_Witness ==
    /\ op = "ensure_processing_started"
    /\ res = "StartProcessingFailed"
    /\ IsEnum(processor, "Stopped")
    /\ Len(calls) = 1
    /\ calls[1].ret = "false"

\* C9: when into_started is called on a Stopped processor and the foreign
\* start reports failure, the caller gets a ProcessingStartError owning the
\* Stopped processor of the same instance, which into_stopped_processor
\* gives back; no reference is released, the instance stays active, and the
\* failed foreign start is the only foreign call.
C9_FailedStartKeepsProcessor ==
    [][ /\ (/\ op' = "into_started"
            /\ IsEnum(processor, "Stopped")
            /\ \E k \in 1..Len(calls') :
                  calls'[k].fn = "start_processing" /\ calls'[k].ret = "false")
            => /\ res' = "Err"
               /\ processor' = ProcessingStartError(processor.inner)
               /\ ProcessingStartError_into_stopped_processor(processor')
                    = StoppedPluginAudioProcessor(processor.inner)
               /\ strong' = strong
               /\ audio_processor' = audio_processor
               /\ destroyed' = destroyed
               /\ ForeignNames(calls') = <<"start_processing">>
        /\ op' = "into_stopped_processor"
            => /\ processor.form = "error"
               /\ processor' = StoppedPluginAudioProcessor(processor.inner)
               /\ calls' = <<>>
               /\ strong' = strong ]_vars

\* The processor has been recovered from a failed into_started; it holds
\* the last reference to its instance, which is neither destroyed nor
\* deactivated.
C9_Witness ==
    /\ op = "into_stopped_processor"
    /\ processor.form = "bare"
    /\ processor.tag = "Stopped"
    /\ strong[processor.inner] = 1
    /\ instance # processor.inner
    /\ audio_processor[processor.inner]
    /\ destroyed[processor.inner] = 0
    /\ table["destroy"]

\* C10: matches answers true exactly when the processor holds the instance
\* under test, for Started and Stopped processors, and changes nothing; a
\* processor value holds the same instance before and after every step that
\* does not create or drop it.
C10_Matches ==
    [][ /\ op' = "matches"
            => /\ res' = Bool(processor.inner = instance)
               /\ processor' = processor
               /\ calls' = <<>>
        /\ (processor # NoProcessor /\ processor' # NoProcessor)
            => processor'.inner = processor.inner
        /\ processor # NoProcessor => processor.inner \in Ids ]_vars

\* A Started processor has just been tested against another instance than
\* the one it holds.
C10_Witness ==
    /\ op = "matches"
    /\ res = "false"
    /\ processor.tag = "Started"
    /\ instance # None
    /\ instance # processor.inner

\* The last operation was a process request that reached the foreign
\* process function.
Processed ==
    /\ op = "process"
    /\ request # <<>>
    /\ Len(calls) = 1
    /\ calls[1].fn = "process"

\* C11: the frame count sent to the foreign process function is the smaller
\* of the two counts when both buffers report one, the reported count when
\* only one does, and zero when neither does; 64 and 128 give 64, absent and
\* 100 give 100.
C11_FramesCount ==
    Processed
      => LET f == calls[1].arg[2]
             a == request[1].in_frames
             b == request[1].out_frames
         IN  /\ (a # <<>> /\ b # <<>>)
                  => f <= a[1] /\ f <= b[1] /\ f \in {a[1], b[1]}
             /\ (a # <<>> /\ b = <<>>) => f = a[1]
             /\ (a = <<>> /\ b # <<>>) => f = b[1]
             /\ (a = <<>> /\ b = <<>>) => f = 0
             /\ (a = <<64>> /\ b = <<128>>) => f = 64
             /\ (a = <<>> /\ b = <<100>>) => f = 100

\* The input buffers reported more frames than the output buffers, and the
\* output count was sent.
C11_Witness ==
    /\ Processed
    /\ request[1].in_frames = <<128>>
    /\ request[1].out_frames = <<64>>
    /\ calls[1].arg[2] = 64

\* C12: the steady-time field sent is -1 exactly when no steady time is
\* requested; a requested value is sent unchanged when it fits the signed
\* type and as the largest signed value otherwise, so it is never negative.
C12_SteadyTime ==
    Processed
      => LET t == calls[1].arg[1]
             v == request[1].steady_time
         IN  /\ t = -1 <=> v = <<>>
             /\ v # <<>>
                  => /\ t >= 0
                     /\ v[1] <= 2^(Bits - 1) - 1 => t = v[1]
                     /\ v[1] > 2^(Bits - 1) - 1 => t = 2^(Bits - 1) - 1

\* The largest unsigned value was requested and the largest signed value
\* was sent.
C12_Witness ==
    /\ Processed
    /\ request[1].steady_time = <<2^Bits - 1>>
    /\ calls[1].arg[1] = 2^(Bits - 1) - 1

\* C13: a process request on a Started processor leaves it Started; with no
\* process entry it fails with NullProcessFunction and makes no foreign
\* call; otherwise it makes exactly one, to process, and fails with
\* ProcessingFailed when that returns the error status or a code outside
\* the known set, and returns the status the code stands for otherwise.
C13_ProcessResult ==
    [][ (op' = "process" /\ IsEnum(processor, "Started"))
          => /\ processor' = processor
             /\ ~table["process"]
                  => res' = "NullProcessFunction" /\ calls' = <<>>
             /\ table["process"]
                  => /\ Len(calls') = 1
                     /\ calls'[1].fn = "process"
                     /\ calls'[1].inst = processor.inner
                     /\ res' = CASE calls'[1].ret = "1" -> "Continue"
                                 [] calls'[1].ret = "2" -> "ContinueIfNotQuiet"
                                 [] calls'[1].ret = "3" -> "Sleep"
                                 [] OTHER -> "ProcessingFailed" ]_vars

\* The foreign process has just returned the error status.
C13_Witness ==
    /\ op = "process"
    /\ res = "ProcessingFailed"
    /\ IsEnum(processor, "Started")
    /\ Len(calls) = 1
    /\ calls[1].ret = "0"

\* The calls to f in the trace t of a plugin-side operation.
RanOf(t, f) ==
    LET Test(x) == x.fn = f IN SelectSeq(t, Test)

\* The last plugin-side operation came through a dispatch entry point.
Dispatched == pw_op.name \in {"handle", "handle_plugin_data"}

\* The handler closure ran and panicked.
HandlerPanicked ==
    \E k \in DOMAIN pw_ran : pw_ran[k].fn = "handler" /\ pw_ran[k].ret = "Unwind"

\* The handler closure panicked or returned an error.
HandlerFailed ==
    \E k \in DOMAIN pw_ran :
      pw_ran[k].fn = "handler" /\ pw_ran[k].ret \in {"Unwind", "Err"}

PresentResult == pw_res.kind = "Some"

AbsentResult == pw_res = Result("None", "-")

\* C14: a handle call with a null raw instance pointer runs neither the
\* handler nor any plugin logic, leaves the wrapper as it was, logs the one
\* error NullPluginInstance and returns the absent result.
C14_NullInstance ==
    [][(pw_op'.name = "handle" /\ pw_op'.raw.null)
         => /\ pw_ran' = <<>>
            /\ UNCHANGED <<pw_audio_processor, pw_facets, pw_last>>
            /\ Len(pw_log') = 1
            /\ pw_log'[1].error = "NullPluginInstance"
            /\ pw_res' = Result("None", "-")]_vars

\* A handler that would have activated the plugin was passed with a null
\* pointer.
C14_Witness ==
    /\ pw_op.name = "handle"
    /\ pw_op.raw.null
    /\ pw_op.handler.kind = "activate"
    /\ pw_op.handler.outcome = "ok"
    /\ AbsentResult
    /\ pw_log # <<>>

\* C15 as stated: handle returns a present result, carrying the handler's
\* value, exactly when the instance pointer and its plugin data pointer are
\* non-null and the handler neither panicked nor returned an error; on every
\* other path it returns the absent result and logs exactly one error; the
\* success path logs nothing.
C15_HandleResultAsStated ==
    pw_op.name = "handle"
      => /\ PresentResult
              <=> (~pw_op.raw.null /\ ~pw_op.raw.data_null /\ ~HandlerFailed)
         /\ PresentResult => pw_log = <<>>
         /\ ~PresentResult => AbsentResult /\ Len(pw_log) = 1

\* C15: handle returns a present result, carrying the handler's value,
\* exactly when the instance pointer and its plugin data pointer are
\* non-null, the plugin data yields its wrapper, and the handler neither
\* panicked nor returned an error, and then it logs nothing; a handler panic
\* in a test build propagates out of handle with nothing logged; on every
\* other path handle returns the absent result and logs exactly one error.
C15_HandleResult ==
    pw_op.name = "handle"
      => /\ PresentResult
              <=> (~pw_op.raw.null /\ ~pw_op.raw.data_null
                     /\ pw_op.raw.inited /\ ~HandlerFailed)
         /\ PresentResult
              => /\ pw_log = <<>>
                 /\ RanOf(pw_ran, "handler") # <<>>
                 /\ pw_op.handler.kind = "closure" => pw_res.value = "value"
                 /\ pw_op.handler.kind = "audio_processor"
                      => pw_res.value = ToString(pw_audio_processor)
         /\ (cfg_test /\ HandlerPanicked)
              => pw_res.kind = "Unwind" /\ pw_log = <<>>
         /\ (~PresentResult /\ ~(cfg_test /\ HandlerPanicked))
              => AbsentResult /\ Len(pw_log) = 1

\* A handler that would have succeeded was passed with the data of a
\* plugin that yields no wrapper.
C15_Witness ==
    /\ pw_op.name = "handle"
    /\ ~pw_op.raw.data_null
    /\ ~pw_op.raw.inited
    /\ pw_op.handler.kind = "closure"
    /\ pw_op.handler.outcome = "ok"
    /\ AbsentResult
    /\ Len(pw_log) = 1

C17_PluginActivate ==
    [][RanOf(pw_ran', "wrapper_activate") # <<>>
         => LET logic == RanOf(pw_ran', "plugin_activate")
                ret == RanOf(pw_ran', "wrapper_activate")[1].ret
            IN  /\ Len(RanOf(pw_ran', "wrapper_activate")) = 1
                /\ pw_audio_processor # Absent
                     => /\ ret = "ActivatedPlugin"
                        /\ logic = <<>>
                        /\ UNCHANGED <<pw_audio_processor, pw_facets>>
                        /\ pw_op'.name = "activate"
                             => pw_res' = Result("Err", "ActivatedPlugin")
                /\ pw_audio_processor = Absent
                     => /\ Len(logic) = 1
                        /\ logic[1].ret = "Ok"
                             => /\ ret = "Ok"
                                /\ pw_audio_processor'
                                     = Some(pw_op'.handler.cfg)
                                /\ pw_facets' = 1
                        /\ logic[1].ret # "Ok"
                             => /\ ret # "Ok"
                                /\ UNCHANGED <<pw_audio_processor,
                                               pw_facets>>]_vars

\* An activate of a wrapper that holds a facet made for another
\* configuration was refused.
C17_Witness ==
    /\ pw_op.name = "activate"
    /\ pw_res = Result("Err", "ActivatedPlugin")
    /\ pw_audio_processor # Absent
    /\ pw_audio_processor # Some(pw_op.handler.cfg)

\* C18: a deactivate of an inactive wrapper fails with DeactivatedPlugin
\* and runs no teardown; a deactivate of an active wrapper removes the
\* stored facet, runs the plugin's teardown on it exactly once and leaves
\* the wrapper inactive.
C18_PluginDeactivate ==
    [][RanOf(pw_ran', "wrapper_deactivate") # <<>>
         => LET teardown == RanOf(pw_ran', "plugin_deactivate")
                ret == RanOf(pw_ran', "wrapper_deactivate")[1].ret
            IN  /\ Len(RanOf(pw_ran', "wrapper_deactivate")) = 1
                /\ pw_audio_processor' = Absent
                /\ pw_facets' = 0
                /\ pw_audio_processor = Absent
                     => /\ ret = "DeactivatedPlugin"
                        /\ teardown = <<>>
                        /\ pw_op'.name = "deactivate"
                             => pw_res' = Result("Err", "DeactivatedPlugin")
                /\ pw_audio_processor # Absent
                     => /\ Len(teardown) = 1
                        /\ ret # "DeactivatedPlugin"
                        /\ teardown[1].ret = "Ok" => ret = "Ok"]_vars

\* A deactivate of an active wrapper returned Ok.
C18_Witness ==
    /\ pw_op.name = "deactivate"
    /\ pw_res = Result("Ok", "unit")
    /\ Len(RanOf(pw_ran, "plugin_deactivate")) = 1
    /\ pw_audio_processor = Absent

\* What the audio_processor accessor returned, when the last operation
\* called it, matches the facet cell.
AccessorMatches ==
    /\ \A k \in DOMAIN pw_ran :
         pw_ran[k].fn = "wrapper_audio_processor"
           => pw_ran[k].ret = IF pw_audio_processor # Absent THEN "Ok"
                              ELSE "DeactivatedPlugin"
    /\ pw_op.name = "audio_processor"
         => pw_res = IF pw_audio_processor # Absent
                     THEN Result("Ok", ToString(pw_audio_processor))
                     ELSE Result("Err", "DeactivatedPlugin")

\* C19 as stated: at most one facet exists, one exists exactly when the
\* wrapper is active, the wrapper is active exactly when the last
\* successful lifecycle call was activate, and the accessor returns the
\* facet when active and fails with DeactivatedPlugin when inactive.
C19_OneFacetAsStated ==
    /\ pw_facets <= 1
    /\ pw_facets = 1 <=> pw_audio_processor # Absent
    /\ pw_audio_processor # Absent <=> pw_last = "activate"
    /\ AccessorMatches

\* C19: at most one facet exists, one exists exactly when the wrapper is
\* active, the wrapper is active exactly when the last successful lifecycle
\* call was activate and no teardown has panicked since, and the accessor
\* returns the facet when active and fails with DeactivatedPlugin when
\* inactive.
C19_OneFacet ==
    /\ pw_facets <= 1
    /\ pw_facets = 1 <=> pw_audio_processor # Absent
    /\ pw_audio_processor # Absent <=> (pw_last = "activate" /\ ~pw_torn)
    /\ AccessorMatches

\* The accessor failed although the last successful lifecycle call was
\* activate: the teardown of a deactivate panicked.
C19_Witness ==
    /\ pw_op.name = "audio_processor"
    /\ pw_res = Result("Err", "DeactivatedPlugin")
    /\ pw_last = "activate"
    /\ pw_torn

\* C20: when the foreign activate function returns false, activate returns
\* ActivationFailed after building the facet, calling the foreign function
\* and tearing the facet down, in that order; the instance is inactive and
\* has no processor, and an activate whose foreign call succeeds would then
\* succeed.
C20_FailedActivate ==
    /\ [][(op' = "activate"
             /\ \E k \in DOMAIN calls' :
                  calls'[k].fn = "activate" /\ calls'[k].ret = "false")
            => /\ res' = "ActivationFailed"
               /\ NamesOn(calls', FacetEvents \cup {"activate"}, instance)
                    = <<"facet_init", "activate", "facet_teardown">>
               /\ ~audio_processor'[instance]
               /\ processor' = NoProcessor
               /\ UNCHANGED <<strong, destroyed, instance>>]_vars
    /\ []((op = "activate" /\ res = "ActivationFailed")
            => /\ instance # None
               /\ processor = NoProcessor
               /\ \A cfg \in Configs :
                    Inner_activate(World, instance, cfg, TRUE).r = "Ok")

\* An activate failed in the foreign call, after the facet was built and
\* before it was torn down.
C20_Witness ==
    /\ op = "activate"
    /\ res = "ActivationFailed"
    /\ Len(calls) = 3
    /\ calls[3].fn = "facet_teardown"

\* C21: create fails with MissingPluginFactory exactly when the bundle has
\* no factory, and the factory is then not invoked; it fails with
\* InstantiationFailed exactly when the factory, invoked once, reports an
\* error or returns a null instance pointer; a failed create returns no
\* instance.
C21_CreateErrors ==
    [][op' = "create"
         => LET made == CallsTo(calls', "create_plugin", nextId) IN
            /\ res' \in {"Ok", "MissingPluginFactory", "InstantiationFailed"}
            /\ Len(made) <= 1
            /\ res' = "MissingPluginFactory" <=> made = <<>>
            /\ res' = "InstantiationFailed"
                 <=> (made # <<>> /\ made[1].ret \in {"null", "error"})
            /\ res' # "Ok" => instance' = None
            /\ res' = "Ok" => instance' = nextId]_vars

\* The factory returned a null instance pointer.
C21_Witness ==
    /\ op = "create"
    /\ res = "InstantiationFailed"
    /\ instance = None
    /\ Len(calls) = 1
    /\ calls[1].ret = "null"

\* C22: when create fails, the plugin_ptr of the instance it had built is
\* null and dropping that instance invokes neither the foreign deactivate
\* nor the foreign destroy function.
C22_FailedCreateDrop ==
    [][(op' = "create" /\ res' # "Ok")
         => /\ ~plugin_ptr'[nextId]
            /\ strong'[nextId] = 0
            /\ destroyed'[nextId] = 0
            /\ ~audio_processor'[nextId]
            /\ NamesOn(calls', {"deactivate", "destroy"}, nextId) = <<>>]_vars

\* A create failed for want of a factory although the function table in
\* use has a deactivate and a destroy entry.
C22_Witness ==
    /\ op = "create"
    /\ res = "MissingPluginFactory"
    /\ table["deactivate"]
    /\ table["destroy"]
    /\ calls = <<>>

----------------------------------------------------------------------------
(* Both sides.  The host crate and the plugin crate are separate programs: *)
(* a behaviour is a host driving a foreign plugin, or a plugin wrapper     *)
(* driven by a foreign host.                                               *)

LifecycleInit ==
    /\ table \in [Entries -> BOOLEAN]
    /\ HostNew
    /\ cfg_test \in BOOLEAN
    /\ PluginWrapper_new

LifecycleNext ==
    \/ /\ pw_op.name = "new"
       /\ ~cfg_test
       /\ Next
    \/ /\ op = "init"
       /\ \A e \in Entries : table[e]
       /\ PluginNext

LifecycleSpec == LifecycleInit /\ [][LifecycleNext]_vars

\* The typed errors of the host side's lifecycle and transition requests.
HostErrors ==
    {"NullActivateFunction", "AlreadyActivatedPlugin", "ActivationFailed",
     "DeactivatedPlugin", "StartProcessingFailed", "ProcessingStarted",
     "ProcessingStopped", "NullProcessFunction", "ProcessingFailed"}

\* The typed errors a plugin-side lifecycle call made in the last operation
\* returned.
PluginLifecycleErrors(t) ==
    {t[k].ret : k \in {j \in DOMAIN t :
                         /\ t[j].fn \in {"wrapper_activate",
                                         "wrapper_deactivate"}
                         /\ t[j].ret \notin {"Ok", "panic"}}}

\* C23: a lifecycle or transition request that returns an error leaves the
\* state machine as it was.  On the host side the instance keeps its
\* activation, its facet, its references and its processor state: a second
\* activate leaves it active, a deactivate while inactive leaves it
\* inactive, a strict start on Started leaves Started, a strict stop on
\* Stopped and a process on Stopped leave Stopped, and none of these makes a
\* foreign call.  On the plugin side the facet cell is as it was.
C23_FailedRequestKeepsState ==
    [][/\ (op' \notin {"init", "create"} /\ res' \in HostErrors)
            => /\ processor'.tag = processor.tag
               /\ processor'.inner = processor.inner
               /\ UNCHANGED <<audio_processor, strong, plugin_ptr,
                              destroyed, instance, nextId>>
               /\ (op' = "activate" /\ res' = "AlreadyActivatedPlugin")
                    => audio_processor[instance] /\ calls' = <<>>
               /\ (op' = "deactivate" /\ res' = "DeactivatedPlugin")
                    => ~audio_processor[instance] /\ calls' = <<>>
               /\ (op' = "start_processing" /\ res' = "ProcessingStarted")
                    => processor' = processor /\ calls' = <<>>
                         /\ IsEnum(processor, "Started")
               /\ (op' \in {"stop_processing", "process"}
                     /\ res' = "ProcessingStopped")
                    => processor' = processor /\ calls' = <<>>
                         /\ IsEnum(processor, "Stopped")
       /\ PluginLifecycleErrors(pw_ran') # {}
            => /\ UNCHANGED <<pw_audio_processor, pw_facets>>
               /\ "ActivatedPlugin" \in PluginLifecycleErrors(pw_ran')
                    => pw_audio_processor # Absent
               /\ "DeactivatedPlugin" \in PluginLifecycleErrors(pw_ran')
                    => pw_audio_processor = Absent]_vars

\* A second activate of an active instance was refused.
C23_Witness ==
    /\ op = "activate"
    /\ res = "AlreadyActivatedPlugin"
    /\ instance # None
    /\ audio_processor[instance]

----------------------------------------------------------------------------
(* Observers of the enum, and the enum with Poisoned as a value.  Poisoned *)
(* is a public variant: a caller can hold a PluginAudioProcessor that is   *)
(* Poisoned without any transition having panicked.                        *)

PAP_as_started(self) ==
    CASE self.tag = "Started" -> "Ok"
      [] self.tag = "Stopped" -> "ProcessingStopped"
      [] OTHER -> "panic"

PAP_as_stopped(self) ==
    CASE self.tag = "Stopped" -> "Ok"
      [] self.tag = "Started" -> "ProcessingStarted"
      [] OTHER -> "panic"

PAP_as_stopped_mut(self) ==
    CASE self.tag = "Stopped" -> "Ok"
      [] self.tag = "Started" -> "ProcessingStarted"
      [] OTHER -> "panic"

PAP_shared_handler(self) ==
    CASE self.tag = "Poisoned" -> "panic"
      [] OTHER -> "Ok"

PAP_handler(self) ==
    CASE self.tag = "Poisoned" -> "panic"
      [] OTHER -> "Ok"

PAP_handler_mut(self) ==
    CASE self.tag = "Poisoned" -> "panic"
      [] OTHER -> "Ok"

PAP_is_started(self) ==
    CASE self.tag \in {"Stopped", "Poisoned"} -> "false"
      [] OTHER -> "true"

PAP_plugin_handle(self) ==
    CASE self.tag = "Poisoned" -> "panic"
      [] OTHER -> "Ok"

PAP_shared_plugin_handle(self) ==
    CASE self.tag = "Poisoned" -> "panic"
      [] OTHER -> "Ok"

Observers ==
    {"as_started", "as_started_mut", "as_stopped", "as_stopped_mut",
     "shared_handler", "handler", "handler_mut", "is_started",
     "plugin_handle", "shared_plugin_handle"}

PAP_observe(f, self) ==
    CASE f = "as_started" -> PAP_as_started(self)
      [] f = "as_started_mut" -> PAP_as_started_mut(self)
      [] f = "as_stopped" -> PAP_as_stopped(self)
      [] f = "as_stopped_mut" -> PAP_as_stopped_mut(self)
      [] f = "shared_handler" -> PAP_shared_handler(self)
      [] f = "handler" -> PAP_handler(self)
      [] f = "handler_mut" -> PAP_handler_mut(self)
      [] f = "is_started" -> PAP_is_started(self)
      [] f = "plugin_handle" -> PAP_plugin_handle(self)
      [] OTHER -> PAP_shared_plugin_handle(self)

Observe(f) ==
    /\ processor.form = "enum"
    /\ ProcessorDone(f, [self |-> processor, w |-> World,
                         r |-> PAP_observe(f, processor)])

\* An active instance and an enum value of any variant; a Started or
\* Stopped value holds the second reference to the instance.
PoisonInit ==
    /\ table \in [Entries -> BOOLEAN]
    /\ processor \in {Started(1), Stopped(1), Poisoned}
    /\ nextId = 2
    /\ strong = [i \in Ids |-> IF i # 1 THEN 0
                               ELSE IF processor = Poisoned THEN 1 ELSE 2]
    /\ plugin_ptr = [i \in Ids |-> i = 1]
    /\ audio_processor = [i \in Ids |-> i = 1]
    /\ destroyed = [i \in Ids |-> 0]
    /\ processing = [i \in Ids |-> /\ i = 1
                                   /\ processor = Started(1)
                                   /\ table["start_processing"]]
    /\ calls = <<>>
    /\ instance = 1
    /\ request = <<>>
    /\ op = "from"
    /\ res = "Ok"
    /\ cfg_test = FALSE
    /\ PluginWrapper_new

PoisonNext ==
    \/ \E f \in Observers : Observe(f)
    \/ \E ok \in BOOLEAN : StartProcessing(ok)
    \/ \E ok \in BOOLEAN : EnsureProcessingStarted(ok)
    \/ StopProcessing
    \/ EnsureProcessingStopped
    \/ Reset
    \/ \E req \in LifecycleRequests, code \in StatusCodes : Process(req, code)
    \/ \E ok \in BOOLEAN : IntoStarted(ok)
    \/ IntoStopped
    \/ Matches
    \/ From
    \/ IntoStoppedProcessor

PoisonSpec == PoisonInit /\ [][PoisonNext]_vars

\* The public operations of the enum.
PublicOps ==
    Observers \cup {"start_processing", "ensure_processing_started",
                    "stop_processing", "ensure_processing_stopped", "reset",
                    "process", "into_started", "into_stopped", "matches"}

\* C24: every public operation of the enum panics when the value is
\* Poisoned; none returns an ordinary result.
C24_PoisonedPanics ==
    [][(processor = Poisoned /\ op' \in PublicOps)
         => res' = "panic" /\ calls' = <<>>]_vars

\* is_started was asked of a Poisoned value and answered.
C24_Answered ==
    /\ processor = Poisoned
    /\ op = "is_started"
    /\ res = "false"

\* C25: the severity a plugin-facing error is logged with is
\* misbehaving-plugin for Panic, the error level for Plugin, the severity s
\* for an error made by with_severity(s), and misbehaving-host for every
\* other error.
C25_Severity ==
    \A k \in DOMAIN pw_log :
      LET e == pw_log[k].error
          sev == pw_log[k].severity
      IN  /\ e = "Panic" => sev = "CLAP_LOG_PLUGIN_MISBEHAVING"
          /\ e = "Plugin" => sev = "CLAP_LOG_ERROR"
          /\ \A s \in Severities : e = PWE_with_severity(s) => sev = s
          /\ e \in PlainErrors \ {"Panic", "Plugin"}
               => sev = "CLAP_LOG_HOST_MISBEHAVING"
          /\ e \in PlainErrors \cup AnyErrors

\* A handler returned an error made by with_severity for a warning, and it
\* was logged as a warning.
C25_Witness ==
    /\ pw_op.name = "handle"
    /\ pw_op.handler.error = PWE_with_severity("CLAP_LOG_WARNING")
    /\ Len(pw_log) = 1
    /\ pw_log[1].severity = "CLAP_LOG_WARNING"

\* The number of handles that hold a reference to instance i: the
\* PluginInstance inst of the control context and the processor value proc
\* of the processing context.
Holders(inst, proc, i) ==
    (IF inst = i THEN 1 ELSE 0) + (IF proc.inner = i THEN 1 ELSE 0)

\* A step invokes the foreign destroy of i only when it releases the last
\* handle of i, and then once and for the first time.
DestroyOnlyAtLastRelease(i) ==
    LET d == CallsTo(calls', "destroy", i) IN
    d # <<>>
      => /\ Len(d) = 1
         /\ destroyed[i] = 0
         /\ Holders(instance, processor, i) = 1
         /\ Holders(instance', processor', i) = 0
         /\ calls'[Len(calls')] = d[1]

\* The step releases the last handle of the created instance i.
LastRelease(i) ==
    /\ plugin_ptr[i]
    /\ Holders(instance, processor, i) = 1
    /\ Holders(instance', processor', i) = 0

\* C26 as stated: the foreign destroy function runs only when the last of
\* the handles is released, never while one is held, and exactly once.
C26_SharedDestroyAsStated ==
    [][\A i \in Ids :
         /\ DestroyOnlyAtLastRelease(i)
         /\ LastRelease(i) => Len(CallsTo(calls', "destroy", i)) = 1]_vars

\* C26: the foreign destroy function runs only when the last of the handles
\* is released, never while one is held, and, when the function table has
\* a destroy entry, exactly once; without the entry it is never invoked.
C26_SharedDestroy ==
    [][\A i \in Ids :
         /\ DestroyOnlyAtLastRelease(i)
         /\ LastRelease(i)
              => Len(CallsTo(calls', "destroy", i))
                   = IF table["destroy"] THEN 1 ELSE 0
         /\ Holders(instance', processor', i) > 0 => destroyed'[i] = 0]_vars

\* The control context released its handle first; the destroy ran when the
\* processing context released a Started processor.
C26_Witness ==
    /\ op = "drop_processor"
    /\ instance = None
    /\ Len(calls) >= 2
    /\ calls[1].fn = "stop_processing"
    /\ calls[Len(calls)].fn = "destroy"

\* C27: in a host-side activate that reaches the foreign activate function,
\* the facet is built, once, before that function is invoked, and the
\* instance, inactive before the request, answers active while the foreign
\* function runs.
C27_FacetBeforeActivate ==
    [][op' = "activate"
         => LET a == CallsTo(calls', "activate", instance) IN
            /\ Len(a) <= 1
            /\ a # <<>>
                 => /\ ~audio_processor[instance]
                    /\ a[1].active
                    /\ Len(calls') >= 2
                    /\ calls'[1].fn = "facet_init"
                    /\ calls'[1].inst = instance
                    /\ calls'[2] = a[1]
                    /\ Len(CallsTo(calls', "facet_init", instance)) = 1]_vars

\* The foreign activate ran, found the instance active, and succeeded.
C27_Witness ==
    /\ op = "activate"
    /\ res = "Ok"
    /\ Len(calls) = 2
    /\ calls[2].fn = "activate"
    /\ calls[2].active

\* C28: a host-side deactivate of an active instance invokes the foreign
\* deactivate function, when the table has it, while the instance is still
\* active and before the facet is torn down; the teardown closure runs
\* exactly once, the request returns Ok and the instance is inactive
\* afterwards.
C28_DeactivateBeforeTeardown ==
    [][(op' = "deactivate" /\ audio_processor[instance])
         => LET d == CallsTo(calls', "deactivate", instance)
                t == CallsTo(calls', "facet_teardown", instance)
            IN  /\ res' = "Ok"
                /\ ~audio_processor'[instance]
                /\ Len(t) = 1
                /\ calls'[Len(calls')] = t[1]
                /\ Len(d) = IF table["deactivate"] THEN 1 ELSE 0
                /\ d # <<>> => d[1].active /\ calls'[1] = d[1]
                /\ Len(calls') = Len(d) + 1]_vars

\* The foreign deactivate ran before the teardown.
C28_Witness ==
    /\ op = "deactivate"
    /\ res = "Ok"
    /\ Len(calls) = 2
    /\ calls[1].fn = "deactivate"
    /\ calls[1].active
    /\ calls[2].fn = "facet_teardown"

\* A stop request, strict or idempotent, made in the Started state.
StopsFromStarted ==
    /\ op' \in {"stop_processing", "ensure_processing_stopped"}
    /\ IsEnum(processor, "Started")

\* C29 as stated: from Started, both stop requests invoke the foreign
\* stop_processing function exactly once and end in Stopped; the idempotent
\* stop on Stopped succeeds without a foreign call and stays Stopped.
C29_StopFromStartedAsStated ==
    [][/\ StopsFromStarted
          => /\ Len(CallsTo(calls', "stop_processing", processor.inner)) = 1
             /\ Len(calls') = 1
             /\ res' = "Ok"
             /\ processor' = Stopped(processor.inner)
       /\ (op' = "ensure_processing_stopped" /\ IsEnum(processor, "Stopped"))
          => /\ calls' = <<>>
             /\ res' = "Ok"
             /\ processor' = processor]_vars

\* C29, amended: from Started, both stop requests invoke the foreign
\* stop_processing function exactly once when the table has it and not at
\* all when it has not, and always end in Stopped; the idempotent stop on
\* Stopped succeeds without a foreign call and stays Stopped.
C29_StopFromStarted ==
    [][/\ StopsFromStarted
          => /\ Len(CallsTo(calls', "stop_processing", processor.inner))
                  = IF table["stop_processing"] THEN 1 ELSE 0
             /\ Len(calls')
                  = Len(CallsTo(calls', "stop_processing", processor.inner))
             /\ res' = "Ok"
             /\ processor' = Stopped(processor.inner)
       /\ (op' = "ensure_processing_stopped" /\ IsEnum(processor, "Stopped"))
          => /\ calls' = <<>>
             /\ res' = "Ok"
             /\ processor' = processor]_vars

\* The idempotent stop, made in Started, called the foreign function once.
C29_Witness ==
    /\ op = "ensure_processing_stopped"
    /\ res = "Ok"
    /\ IsEnum(processor, "Stopped")
    /\ Len(calls) = 1
    /\ calls[1].fn = "stop_processing"

\* C30: an absent optional entry is an automatic success.  Without
\* start_processing a start from Stopped succeeds and ends in Started;
\* without stop_processing a stop from Started ends in Stopped; without
\* deactivate the deactivation of an active instance still tears the facet
\* down and succeeds; without destroy the release of the last reference of a
\* created instance completes; none of them makes a foreign call for the
\* absent entry.
C30_AbsentEntries ==
    [][/\ (StartsFromStopped /\ ~table["start_processing"])
          => /\ res' = "Ok"
             /\ processor' = Started(processor.inner)
             /\ calls' = <<>>
       /\ (StopsFromStarted /\ ~table["stop_processing"])
          => /\ res' = "Ok"
             /\ processor' = Stopped(processor.inner)
             /\ calls' = <<>>
       /\ (op' = "deactivate" /\ audio_processor[instance]
             /\ ~table["deactivate"])
          => /\ res' = "Ok"
             /\ ~audio_processor'[instance]
             /\ Len(calls') = 1
             /\ calls'[1].fn = "facet_teardown"
             /\ calls'[1].inst = instance
       /\ \A i \in Ids :
            (plugin_ptr[i] /\ strong[i] > 0 /\ strong'[i] = 0
               /\ ~table["destroy"])
            => /\ res' # "panic"
               /\ destroyed'[i] = 0
               /\ CallsTo(calls', "destroy", i) = <<>>]_vars

\* The last reference of a created instance was released with none of the
\* optional entries in the table, and the release made no foreign call.
C30_Witness ==
    /\ op \in {"drop_instance", "drop_processor"}
    /\ res = "Ok"
    /\ ~table["destroy"]
    /\ ~table["start_processing"]
    /\ ~table["stop_processing"]
    /\ ~table["deactivate"]
    /\ \E i \in Ids : plugin_ptr[i] /\ strong[i] = 0
    /\ calls = <<>>

\* A Started processor value, of either form, of instance i.
HoldsStarted(p, i) == p.tag = "Started" /\ p.inner = i

\* The step ends a Started period of instance i.
EndsStarted(i) == HoldsStarted(processor, i) /\ ~HoldsStarted(processor', i)

\* The processing context drops a Started processor.
DropsStarted ==
    /\ op' \in {"drop_processor", "unwind_processor"}
    /\ processor.tag = "Started"

\* C31 as stated: successful foreign start_processing calls and foreign
\* stop_processing calls strictly alternate, beginning with a start;
\* stop_processing is invoked only while the processor is Started and
\* exactly once per Started period; a Started processor that is dropped
\* invokes stop_processing before it releases its reference.
C31_StartStopAlternateAsStated ==
    [][/\ \A k \in 1..Len(calls') :
            LET c == calls'[k] IN
            /\ (c.fn = "start_processing" /\ c.ret = "true") => ~c.started
            /\ c.fn = "stop_processing"
                 => c.started /\ EndsStarted(c.inst)
       /\ \A i \in Ids :
            EndsStarted(i)
              => Len(CallsTo(calls', "stop_processing", i)) = 1
       /\ DropsStarted
            => /\ calls' # <<>>
               /\ calls'[1].fn = "stop_processing"
               /\ calls'[1].inst = processor.inner
               /\ calls'[1].refs = strong[processor.inner]]_vars

\* C31, amended: stop_processing is invoked only while the processor is
\* Started, in the step that ends the Started period, exactly once when the
\* table has the entry and not at all when it has not; a Started processor
\* that is dropped makes that call first, before it releases its reference;
\* and when the table has both the start_processing and the stop_processing
\* entry, successful start calls and stop calls strictly alternate,
\* beginning with a start.
C31_StartStopAlternate ==
    [][/\ \A k \in 1..Len(calls') :
            LET c == calls'[k] IN
            /\ c.fn = "stop_processing" => EndsStarted(c.inst)
            /\ (table["start_processing"] /\ table["stop_processing"])
                 => /\ (c.fn = "start_processing" /\ c.ret = "true")
                         => ~c.started
                    /\ c.fn = "stop_processing" => c.started
       /\ \A i \in Ids :
            EndsStarted(i)
              => Len(CallsTo(calls', "stop_processing", i))
                   = IF table["stop_processing"] THEN 1 ELSE 0
       /\ (DropsStarted /\ table["stop_processing"])
            => /\ calls' # <<>>
               /\ calls'[1].fn = "stop_processing"
               /\ calls'[1].inst = processor.inner
               /\ calls'[1].refs = strong[processor.inner]]_vars

\* A Started processor was dropped while the control context still held the
\* instance: the plugin, started until then, was stopped with both
\* references alive.
C31_Witness ==
    /\ op = "drop_processor"
    /\ Len(calls) = 1
    /\ calls[1].fn = "stop_processing"
    /\ calls[1].started
    /\ calls[1].refs = 2
    /\ instance # None
    /\ ~processing[instance]

\* The calls the drop of a Started processor holding the last reference to
\* instance i makes, of those the table has: stop_processing, deactivate
\* when the instance is still active, destroy.
LastDropCalls(i) ==
    (IF table["stop_processing"] THEN <<"stop_processing">> ELSE <<>>)
    \o (IF table["deactivate"] /\ audio_processor[i]
        THEN <<"deactivate">> ELSE <<>>)
    \o (IF table["destroy"] THEN <<"destroy">> ELSE <<>>)

C33_DeactivateAfterActivate ==
    [][/\ \A i \in Ids :
            (~audio_processor[i] /\ audio_processor'[i])
              => /\ op' = "activate"
                 /\ res' = "Ok"
                 /\ instance = i
                 /\ Len(CallsTo(calls', "activate", i)) = 1
                 /\ CallsTo(calls', "activate", i)[1].ret = "true"
       /\ \A k \in 1..Len(calls') :
            calls'[k].fn = "deactivate"
              => /\ calls'[k].active
                 /\ audio_processor[calls'[k].inst]
                 /\ ~audio_processor'[calls'[k].inst]
       /\ op' = "activate"
            => LET a == CallsTo(calls', "activate", instance) IN
               /\ (a # <<>> /\ a[1].ret = "false")
                    => /\ res' = "ActivationFailed"
                       /\ NamesOn(calls', ForeignFns \cup FacetEvents,
                                  instance)
                            = <<"facet_init", "activate", "facet_teardown">>
                       /\ ~audio_processor'[instance]
               /\ ~table["activate"]
                    => /\ res' = "NullActivateFunction"
                       /\ calls' = <<>>
                       /\ ~audio_processor'[instance]]_vars

\* The foreign activate reported failure: the facet was torn down and the
\* plugin, which has a deactivate entry, was not deactivated.
C33_Witness ==
    /\ op = "activate"
    /\ res = "ActivationFailed"
    /\ table["deactivate"]
    /\ Len(calls) = 3
    /\ calls[2].fn = "activate" /\ calls[2].ret = "false"
    /\ calls[3].fn = "facet_teardown"
    /\ ~audio_processor[instance]

====
